---- MODULE Spec2Model ----
(***************************************************************************)
(* Grid aggregation of GridBasedVisualizer.create_grid_based_value_map and *)
(* its transit overlay (src/src/real_estate_visualizer/grid_visualizer.py),*)
(* the script that drives them (src/scripts/boston_neighborhood_zones.py)  *)
(* and the university roster (src/src/real_estate_visualizer/              *)
(* university_data.py), and of create_grid_based_value_map and             *)
(* create_multi_tier_heat_map of NeighborhoodValueVisualizer               *)
(* (src/src/real_estate_visualizer/improved_heat_maps.py).                 *)
(*                                                                         *)
(* Geometry.  Coordinates are the projected (EPSG:3857) coordinates of     *)
(* projected_data, as whole numbers.  A geometry is a finite set of closed *)
(* axis-aligned rectangles <<x0, y0, x1, y1>> (a polygon for one           *)
(* rectangle, a multipolygon / rectilinear polygon for several).           *)
(*                                                                         *)
(* Numbers.  Property values are whole numbers.  A median of an even       *)
(* number of values has a half, a linearly interpolated decile has tenths, *)
(* so medians and deciles are carried in tenths (Scale) and compared in    *)
(* tenths: no rounding happens anywhere.                                   *)
(***************************************************************************)
EXTENDS Integers, Sequences, FiniteSets, TLC

VARIABLES
    gdf,                      \* the caller's records (argument gdf)
    gdf_crs,                  \* the caller's frame: its coordinate system
    grid_size_meters,         \* argument grid_size_meters
    pc,                       \* position of the call
    calls,                    \* number of invocations started so far
    valid_data,               \* line 173 (and projected_data, line 192)
    m,                        \* the folium map under construction, or NoMap
    xmin, ymin, xmax, ymax,   \* padded bounds, lines 196-203
    x_cells, y_cells,         \* lines 209-210
    deciles,                  \* lines 222-223, in tenths
    i, j,                     \* loop variables of lines 229-230
    grid_squares_with_data,   \* line 227
    k,                        \* position of the loop of line 277
    visited,                  \* history: the cells the loop of 229-230 has built
    returned,                 \* history: what each finished invocation produced
    log,                      \* the records given to logger, in order
    all_values,               \* line 221, for a list of values taken alone
    thresholds,               \* lines 222-223 for all_values, in tenths
    buckets,                  \* lines 282-311 for each of all_values in turn
    argv,                     \* sys.argv[1] of the script, or "none"
    choice,                   \* the choice of main(), 0 before it is made
    main_pc,                  \* position of main()
    error,                    \* the exception main() ended with, or "none"
    exit_status,              \* status of sys.exit, or "running"
    stops_file,               \* data/MBTA_GTFS/stops.txt as it was found
    rail_stops,               \* result of _load_rail_transit_data
    transit_markers,          \* the CircleMarkers added to the map
    transit_legend,           \* the transit legend has been added to the map
    saved,                    \* save_map has written the map
    universities,             \* BostonUniversityData.universities
    count,                    \* argument count of get_largest_universities
    largest,                  \* what get_largest_universities returned
    uni_pc,                   \* position of the call of get_largest_universities
    cell_results,             \* what each cell gives when aggregated on its own
    nv_pc,                    \* position of the call of the method of
                              \* NeighborhoodValueVisualizer
    nv_valid_data,            \* improved_heat_maps.py line 725 (and 744)
    nv_m,                     \* its folium map, or NoMap
    nv_xmin, nv_ymin, nv_xmax, nv_ymax,   \* its padded bounds, lines 747-755
    nv_x_cells, nv_y_cells,   \* lines 761-762
    nv_deciles,               \* lines 774-775, in tenths
    nv_i, nv_j,               \* loop variables of lines 781-782
    nv_grid_squares_with_data,\* line 779
    nv_k,                     \* position of the loop of line 829
    tier_pc,                  \* position of the call of create_multi_tier_heat_map
    tier_valid_data,          \* improved_heat_maps.py line 256
    quantiles,                \* q33, q67, q90 of line 276, in hundredths
    heat_layers               \* the HeatMap layers added to the map, in order

gridVars == <<gdf, gdf_crs, grid_size_meters, pc, calls, valid_data, m, xmin,
              ymin, xmax, ymax, x_cells, y_cells, deciles, i, j,
              grid_squares_with_data, k, visited, returned, log>>

\* the thresholds and the chain applied to a list of values
sampleVars == <<all_values, thresholds, buckets>>

\* main() of scripts/boston_neighborhood_zones.py and the transit overlay
scriptVars == <<argv, choice, main_pc, error, exit_status, stops_file, rail_stops,
                transit_markers, transit_legend, saved>>

\* BostonUniversityData.get_largest_universities
uniVars == <<universities, count, largest, uni_pc>>

\* the cells aggregated one by one in any order
parVars == <<cell_results>>

\* NeighborhoodValueVisualizer.create_grid_based_value_map
nvVars == <<nv_pc, nv_valid_data, nv_m, nv_xmin, nv_ymin, nv_xmax, nv_ymax,
            nv_x_cells, nv_y_cells, nv_deciles, nv_i, nv_j,
            nv_grid_squares_with_data, nv_k>>

\* NeighborhoodValueVisualizer.create_multi_tier_heat_map
tierVars == <<tier_pc, tier_valid_data, quantiles, heat_layers>>

\* the variables of the other components
otherVars == <<sampleVars, scriptVars, uniVars, parVars, nvVars, tierVars>>

vars == <<gridVars, otherVars>>

-----------------------------------------------------------------------------
(* Bounds of the model *)

MaxRecords == 3
MaxValue == 2
MaxCalls == 2
MaxStops == 2
MaxRoster == 3
MaxEnrollment == 3
MaxLiveRecords == 2

(* Program constants *)

Scale == 10
PercentScale == 100
PaddingPercent == 10

\* no folium.Map has been created
NoMap == [created |-> FALSE, squares |-> <<>>, legend |-> FALSE]

-----------------------------------------------------------------------------
(* Inputs *)

\* The parcels a dataset is drawn from.  "lot" is a small parcel, "abutter"
\* starts at x = 10, "ell" is an L-shaped parcel whose bounding box is much
\* larger than the parcel, "far" is a parcel to the north-east, inside the
\* bounding box of "ell" only in part.
GeometryNames == <<"lot", "abutter", "ell", "far">>

GeometryOf(name) ==
    CASE name = "lot"     -> {<<1, 1, 3, 3>>}
      [] name = "abutter" -> {<<10, 1, 12, 3>>}
      [] name = "ell"     -> {<<1, 1, 2, 17>>, <<1, 1, 17, 2>>}
      [] name = "far"     -> {<<18, 11, 23, 13>>}

Sides == {10, 20}

Values == 0..MaxValue

\* a missing value of the value column (NaN, None): Series.notna() is false
\* for it, and so is every comparison with it
NaN == -1

\* the value column of a frame nobody has cleaned
RawValues == Values \cup {NaN}

\* the coordinate systems a caller's frame comes in
CrsNames == {"EPSG:4326", "EPSG:26986"}

RecordKey(r) ==
    LET g == CHOOSE n \in 1..Len(GeometryNames) : GeometryNames[n] = r.geometry
    IN  g * (MaxValue + 2) + (MaxValue - r.value)

\* Row order of the frame plays no part in any step below (bounds, quantiles
\* and medians sort or take extrema; the index answers with a set), so one
\* row order per multiset of records is enumerated.
DatasetsOver(values) ==
    UNION { { s \in [1..n -> [geometry : {GeometryNames[g] : g \in 1..Len(GeometryNames)},
                              value : values]] :
                \A p \in 1..(n - 1) : RecordKey(s[p]) <= RecordKey(s[p + 1]) } :
            n \in 0..MaxRecords }

Datasets == DatasetsOver(Values)

\* the same with missing values among the rows
RawDatasets == DatasetsOver(RawValues)

-----------------------------------------------------------------------------
(* Sequences of numbers *)

RECURSIVE Insert(_, _)
Insert(v, s) ==
    IF s = <<>> THEN <<v>>
    ELSE IF v <= Head(s) THEN <<v>> \o s
    ELSE <<Head(s)>> \o Insert(v, Tail(s))

\* the values taken in frame order, not sorted
Unsorted(s) == s

RECURSIVE Sorted(_)
Sorted(s) == IF s = <<>> THEN <<>> ELSE Insert(Head(s), Sorted(Tail(s)))

RECURSIVE ValuesAt(_, _, _)
\* the value column of the rows of data at the positions in idxs, from
\* position p on, in frame order
ValuesAt(data, idxs, p) ==
    IF p > Len(data) THEN <<>>
    ELSE (IF p \in idxs THEN <<data[p].value>> ELSE <<>>) \o ValuesAt(data, idxs, p + 1)

\* the values with duplicates dropped, as Series.unique() would give them
ValuesOfDistinct(data) ==
    LET S == {data[p].value : p \in 1..Len(data)}
    IN  [r \in 1..Cardinality(S) |-> CHOOSE a \in S : Cardinality({b \in S : b < a}) = r - 1]

ValuesOf(data) == [p \in 1..Len(data) |-> data[p].value]

Min(S) == CHOOSE a \in S : \A b \in S : a <= b
Max(S) == CHOOSE a \in S : \A b \in S : a >= b

-----------------------------------------------------------------------------
(* Geometry *)

\* closed rectangles share at least a point
RectIntersects(r, q) ==
    r[1] <= q[3] /\ q[1] <= r[3] /\ r[2] <= q[4] /\ q[2] <= r[4]

\* shapely: geometry.intersects(box)
Intersects(geom, rect) == \E r \in geom : RectIntersects(r, rect)

\* the bounding box of one geometry
Envelope(geom) ==
    << Min({r[1] : r \in geom}), Min({r[2] : r \in geom}),
       Max({r[3] : r \in geom}), Max({r[4] : r \in geom}) >>

\* GeoDataFrame.total_bounds
TotalBounds(data) ==
    LET E == {Envelope(GeometryOf(data[p].geometry)) : p \in 1..Len(data)}
    IN  << Min({e[1] : e \in E}), Min({e[2] : e \in E}),
           Max({e[3] : e \in E}), Max({e[4] : e \in E}) >>

-----------------------------------------------------------------------------
(* The steps of create_grid_based_value_map *)

\* line 173: gdf[(gdf[value_column].notna()) & (gdf[value_column] > 0)]
\* the mask without the test on the sign
IsValidNotNull(r) == r.value # NaN

\* the mask with >= in place of >
IsValidNonNegative(r) == r.value # NaN /\ r.value >= 0

IsValid(r) == r.value # NaN /\ r.value > 0

ValidData(g) == SelectSeq(g, IsValid)

\* the rows dropped from the frame that was passed in, and that frame
\* reprojected, as dropna(inplace=True) and to_crs(inplace=True) would do
ArgumentChangedInPlace(rows, crs) == [rows |-> ValidData(rows), crs |-> "EPSG:4326"]

\* lines 170, 173 and 192: to_crs, the boolean mask and copy() each build a
\* new frame, which the local names are bound to; the frame the caller passed
\* in is the operand of these calls and keeps its rows and its CRS
ArgumentAfter(rows, crs) == [rows |-> rows, crs |-> crs]

\* a record given to logger.info
Info(message) == [level |-> "INFO", message |-> message]

\* a record given to logger.warning
Warning(message) == [level |-> "WARNING", message |-> message]

\* a record given to logger.error
Error(message) == [level |-> "ERROR", message |-> message]

\* the same records with a warning about the distribution of the values
\* after the thresholds are computed
GridLogWithWarning ==
    << Info("Creating grid"), Info("Grid dimensions"), Info("Building spatial index"),
       Warning("Degenerate value distribution"), Info("Processing grid squares") >>

\* lines 206, 212, 217 and 226: what create_grid_based_value_map logs before
\* its first cell
GridLog ==
    << Info("Creating grid"), Info("Grid dimensions"), Info("Building spatial index"),
       Info("Processing grid squares") >>

\* a padding of one whole side
PaddingFullSide(side) == side

\* line 199: padding = grid_size_meters * 0.1
Padding(side) == (side * PaddingPercent) \div 100

\* the number of cells rounded down
NumCellsFloor(lo, hi, side) == (hi - lo) \div side

\* the number of cells as int(...) + 1 in place of the ceiling
NumCellsFloorPlusOne(lo, hi, side) == ((hi - lo) \div side) + 1

\* lines 209-210: int(np.ceil((hi - lo) / grid_size_meters)), for hi > lo
NumCells(lo, hi, side) == ((hi - lo) + side - 1) \div side

\* the quantile without interpolation: the value at the position below
QuantileLower(s, q) == Scale * s[(((Len(s) - 1) * q) \div 10) + 1]

\* Series.quantile(q / 10), linear interpolation, on the sorted values s;
\* the result is in tenths
Quantile(s, q) ==
    LET n     == Len(s)
        pos   == (n - 1) * q
        lo    == (pos \div 10) + 1
        hi    == IF lo < n THEN lo + 1 ELSE lo
        gamma == pos % 10
    IN  Scale * s[lo] + gamma * (s[hi] - s[lo])

\* line 222: all_values.quantile([0.1, ..., 0.9])
Deciles(values) == [q \in 1..9 |-> Quantile(Sorted(values), q)]

\* a median that takes the upper middle value and never averages
MedianUpperMiddle(values) ==
    LET s == Sorted(values)
    IN  Scale * s[(Len(s) \div 2) + 1]

\* a median that takes the lower middle value and never averages
MedianLowerMiddle(values) ==
    LET s == Sorted(values)
    IN  Scale * s[(Len(s) + 1) \div 2]

\* line 254: Series.median(), in tenths
Median(values) ==
    LET s == Sorted(values)
        n == Len(s)
    IN  IF n % 2 = 1 THEN Scale * s[(n + 1) \div 2]
        ELSE (Scale \div 2) * (s[n \div 2] + s[(n \div 2) + 1])

\* lines 232-238: box(x_left, y_bottom, x_right, y_top)
GridSquare(ci, cj) ==
    << xmin + ci * grid_size_meters,       ymin + cj * grid_size_meters,
       xmin + (ci + 1) * grid_size_meters, ymin + (cj + 1) * grid_size_meters >>

\* an index whose bounding-box test is strict: a box that only touches the
\* query rectangle is not a candidate
SindexIntersectionStrict(data, rect) ==
    {p \in 1..Len(data) :
        LET e == Envelope(GeometryOf(data[p].geometry))
        IN  e[1] < rect[3] /\ rect[1] < e[3] /\ e[2] < rect[4] /\ rect[2] < e[4]}

\* lines 241-243: spatial_index.intersection(grid_square.bounds): the rows
\* whose bounding box meets the query rectangle
SindexIntersection(data, rect) ==
    {p \in 1..Len(data) : RectIntersects(Envelope(GeometryOf(data[p].geometry)), rect)}

\* the candidates taken as they come from the index, without the exact test
IntersectingUnfiltered(data, idxs, rect) == idxs

\* each record given to one owner cell, the cell that holds the lower-left
\* corner of its bounding box
IntersectingOwner(data, idxs, rect) ==
    {p \in idxs :
        LET e == Envelope(GeometryOf(data[p].geometry))
        IN  rect[1] <= e[1] /\ e[1] < rect[3] /\ rect[2] <= e[2] /\ e[2] < rect[4]}

\* a record is taken by the first cell that finds it: the rows another cell
\* has already put into its set are dropped
IntersectingUnclaimed(data, idxs, rect) ==
    {p \in idxs :
        /\ Intersects(GeometryOf(data[p].geometry), rect)
        /\ \A v \in 1..Len(visited) : p \notin visited[v].rows
        /\ \A c \in DOMAIN cell_results : p \notin cell_results[c].rows}

\* lines 247-250: possible_matches[possible_matches.intersects(grid_square)],
\* as the positions of the rows kept
Intersecting(data, idxs, rect) ==
    {p \in idxs : Intersects(GeometryOf(data[p].geometry), rect)}

\* a cell is kept only when it holds several records
HasDataSeveral(idxs, rows) == idxs # {} /\ Cardinality(rows) > 1

\* lines 245 and 252: the two tests that guard the append
HasData(idxs, rows) == idxs # {} /\ rows # {}

\* the loops nested the other way round: "for j ...: for i ...:"
LoopNextRowMajor(ci, cj) ==
    IF ci + 1 < x_cells THEN <<ci + 1, cj>> ELSE <<0, cj + 1>>

\* lines 229-230: the cell after (ci, cj) in "for i ...: for j ...:"
LoopNext(ci, cj) ==
    IF cj + 1 < y_cells THEN <<ci, cj + 1>> ELSE <<ci + 1, 0>>

\* the outer loop as "for i in range(x_cells - 1)"
InRangeShort(ci, cj) == ci < x_cells - 1 /\ cj < y_cells

\* range(x_cells), range(y_cells): is (ci, cj) still a cell of the loops
InRange(ci, cj) == ci < x_cells /\ cj < y_cells

\* the chain with the results of its second and third branch exchanged
DecileOfMislabelled(median_val, d) ==
    IF median_val <= d[1] THEN 1
    ELSE IF median_val <= d[2] THEN 3
    ELSE IF median_val <= d[3] THEN 2
    ELSE IF median_val <= d[4] THEN 4
    ELSE IF median_val <= d[5] THEN 5
    ELSE IF median_val <= d[6] THEN 6
    ELSE IF median_val <= d[7] THEN 7
    ELSE IF median_val <= d[8] THEN 8
    ELSE IF median_val <= d[9] THEN 9
    ELSE 10

\* the chain with < in place of <=
DecileOfStrict(median_val, d) ==
    IF median_val < d[1] THEN 1
    ELSE IF median_val < d[2] THEN 2
    ELSE IF median_val < d[3] THEN 3
    ELSE IF median_val < d[4] THEN 4
    ELSE IF median_val < d[5] THEN 5
    ELSE IF median_val < d[6] THEN 6
    ELSE IF median_val < d[7] THEN 7
    ELSE IF median_val < d[8] THEN 8
    ELSE IF median_val < d[9] THEN 9
    ELSE 10

\* the chain written with "if" in place of "elif": every test is made and
\* the last threshold that the value does not exceed sets the bucket
DecileOfLastMatch(v, d) ==
    LET F == {q \in 1..9 : v <= d[q]}
    IN  IF F = {} THEN 10 ELSE Max(F)

\* lines 282-311: the if / elif chain, d being the nine thresholds
DecileOf(median_val, d) ==
    IF median_val <= d[1] THEN 1
    ELSE IF median_val <= d[2] THEN 2
    ELSE IF median_val <= d[3] THEN 3
    ELSE IF median_val <= d[4] THEN 4
    ELSE IF median_val <= d[5] THEN 5
    ELSE IF median_val <= d[6] THEN 6
    ELSE IF median_val <= d[7] THEN 7
    ELSE IF median_val <= d[8] THEN 8
    ELSE IF median_val <= d[9] THEN 9
    ELSE 10

\* lines 283-310: the colour set in each branch of the chain
DecileColor(d) ==
    << "#08306b", "#08519c", "#3182bd", "#6baed6", "#9ecae1",
       "#c6dbef", "#fcae91", "#fb6a4a", "#de2d26", "#a50f15" >>[d]

\* the list of the previous invocation kept
KeptGridSquares(old) == old

\* line 227: grid_squares_with_data = []
NewGridSquares(old) == <<>>

\* the style function as "lambda x: {...}": color is looked up in the
\* enclosing scope when the function is called, where the loop variable
\* holds the colour of the last pass
StyleFunctionLateBinding(map, p) ==
    LET color == map.squares[Len(map.squares)].color
    IN  [fillColor |-> color, color |-> color, weight |-> 1]

\* lines 328-334: style_function=lambda x, color=color: {...}, called on the
\* p-th square of the map; the default argument was evaluated when the
\* lambda was created, in the pass that drew the square
StyleFunction(map, p) ==
    LET color == map.squares[p].color
    IN  [fillColor |-> color, color |-> color, weight |-> 1]

\* what the caller can read off the returned map: one tuple per square
Summary(map) ==
    [p \in 1..Len(map.squares) |->
        << map.squares[p].grid_id, map.squares[p].median_value,
           map.squares[p].property_count, map.squares[p].decile >>]

-----------------------------------------------------------------------------
(* State machine *)

\* nothing has been called yet
Idle ==
    /\ pc = "ready"
    /\ calls = 1
    /\ valid_data = <<>>
    /\ m = NoMap
    /\ xmin = 0 /\ ymin = 0 /\ xmax = 0 /\ ymax = 0
    /\ x_cells = 0 /\ y_cells = 0
    /\ deciles = <<>>
    /\ i = 0 /\ j = 0
    /\ grid_squares_with_data = <<>>
    /\ k = 1
    /\ visited = <<>>
    /\ returned = <<>>
    /\ log = <<>>

\* no list of values is being classified
SampleIdle == all_values = <<>> /\ thresholds = <<>> /\ buckets = <<>>

\* no stops file has been read
NoFile == [readable |-> FALSE, rows |-> <<>>]

\* _load_rail_transit_data has returned None, or has not been called
NoStops == [none |-> TRUE, rows |-> <<>>]

\* the script is not run
ScriptIdle ==
    /\ argv = "none"
    /\ choice = 0
    /\ main_pc = "off"
    /\ error = "none"
    /\ exit_status = "running"
    /\ stops_file = NoFile
    /\ rail_stops = NoStops
    /\ transit_markers = <<>>
    /\ transit_legend = FALSE
    /\ saved = FALSE

\* get_largest_universities is not called
UniIdle == universities = <<>> /\ count = 0 /\ largest = <<>> /\ uni_pc = "off"

\* no cell has been aggregated on its own
ParIdle == cell_results = <<>>

\* the method of NeighborhoodValueVisualizer has not been called
NvIdle ==
    /\ nv_pc = "off"
    /\ nv_valid_data = <<>>
    /\ nv_m = NoMap
    /\ nv_xmin = 0 /\ nv_ymin = 0 /\ nv_xmax = 0 /\ nv_ymax = 0
    /\ nv_x_cells = 0 /\ nv_y_cells = 0
    /\ nv_deciles = <<>>
    /\ nv_i = 0 /\ nv_j = 0
    /\ nv_grid_squares_with_data = <<>>
    /\ nv_k = 1

\* create_multi_tier_heat_map has not been called
TierIdle ==
    /\ tier_pc = "off"
    /\ tier_valid_data = <<>>
    /\ quantiles = <<>>
    /\ heat_layers = <<>>

\* create_grid_based_value_map is not called
GridIdle ==
    /\ gdf = <<>>
    /\ gdf_crs = "EPSG:4326"
    /\ grid_size_meters \in {Min(Sides)}
    /\ Idle

\* the caller passes a frame in EPSG:4326 without missing values
Init ==
    /\ gdf \in Datasets
    /\ gdf_crs = "EPSG:4326"
    /\ grid_size_meters \in Sides
    /\ Idle
    /\ SampleIdle
    /\ ScriptIdle
    /\ UniIdle
    /\ ParIdle
    /\ NvIdle
    /\ TierIdle

\* the caller passes any frame
InitRaw ==
    /\ gdf \in RawDatasets
    /\ gdf_crs \in CrsNames
    /\ grid_size_meters \in Sides
    /\ Idle
    /\ SampleIdle
    /\ ScriptIdle
    /\ UniIdle
    /\ ParIdle
    /\ NvIdle
    /\ TierIdle

\* lines 165-166 and 175-176: raise ValueError
RaiseValueError ==
    /\ pc = "ready"
    /\ gdf = <<>> \/ ValidData(gdf) = <<>>
    /\ pc' = "raised"
    /\ gdf' = IF gdf = <<>> THEN gdf ELSE ArgumentAfter(gdf, gdf_crs).rows
    /\ gdf_crs' = IF gdf = <<>> THEN gdf_crs ELSE ArgumentAfter(gdf, gdf_crs).crs
    /\ UNCHANGED <<grid_size_meters, calls, valid_data, m, xmin, ymin, xmax,
                   ymax, x_cells, y_cells, deciles, i, j, grid_squares_with_data,
                   k, visited, returned, log>>
    /\ UNCHANGED otherVars

\* lines 165-227: everything up to the first cell
Prepare ==
    /\ pc = "ready"
    /\ gdf # <<>>
    /\ ValidData(gdf) # <<>>
    /\ \E data \in {ValidData(gdf)} :
       \E bounds \in {TotalBounds(data)} :
       \E padding \in {Padding(grid_size_meters)} :
           /\ valid_data' = data
           /\ m' = [created |-> TRUE, squares |-> <<>>, legend |-> FALSE]
           /\ xmin' = bounds[1] - padding
           /\ ymin' = bounds[2] - padding
           /\ xmax' = bounds[3] + padding
           /\ ymax' = bounds[4] + padding
           /\ x_cells' = NumCells(bounds[1] - padding, bounds[3] + padding, grid_size_meters)
           /\ y_cells' = NumCells(bounds[2] - padding, bounds[4] + padding, grid_size_meters)
           /\ deciles' = Deciles(ValuesOf(data))
    /\ grid_squares_with_data' = NewGridSquares(grid_squares_with_data)
    /\ i' = 0 /\ j' = 0
    /\ k' = 1
    /\ visited' = <<>>
    /\ pc' = IF x_cells' > 0 /\ y_cells' > 0 THEN "grid" ELSE "draw"
    /\ gdf' = ArgumentAfter(gdf, gdf_crs).rows
    /\ gdf_crs' = ArgumentAfter(gdf, gdf_crs).crs
    /\ log' = log \o GridLog
                   \o (IF x_cells' > 0 /\ y_cells' > 0 THEN <<>> ELSE << Info("Found grid squares") >>)
    /\ UNCHANGED <<grid_size_meters, calls, returned>>
    /\ UNCHANGED otherVars

\* lines 229-270: one pass of the body of the nested loops
ProcessCell ==
    /\ pc = "grid"
    /\ \E grid_square \in {GridSquare(i, j)} :
       \E possible \in {SindexIntersection(valid_data, grid_square)} :
       \E intersecting \in {IF possible # {}
                            THEN Intersecting(valid_data, possible, grid_square)
                            ELSE {}} :
       \E next \in {LoopNext(i, j)} :
           /\ grid_squares_with_data' =
                IF HasData(possible, intersecting)
                THEN Append(grid_squares_with_data,
                            [ geometry       |-> grid_square,
                              median_value   |-> Median(ValuesAt(valid_data, intersecting, 1)),
                              property_count |-> Cardinality(intersecting),
                              grid_id        |-> <<i, j>> ])
                ELSE grid_squares_with_data
           /\ visited' = Append(visited, [ cell   |-> <<i, j>>,
                                           square |-> grid_square,
                                           rows   |-> intersecting ])
           /\ i' = next[1]
           /\ j' = next[2]
           /\ pc' = IF InRange(next[1], next[2]) THEN "grid" ELSE "draw"
           /\ log' = IF InRange(next[1], next[2]) THEN log
                      ELSE Append(log, Info("Found grid squares"))
    /\ UNCHANGED <<gdf, gdf_crs, grid_size_meters, calls, valid_data, m, xmin, ymin,
                   xmax, ymax, x_cells, y_cells, deciles, k, returned>>
    /\ UNCHANGED otherVars

\* lines 277-337: one pass of the drawing loop
DrawSquare ==
    /\ pc = "draw"
    /\ k <= Len(grid_squares_with_data)
    /\ LET grid_data == grid_squares_with_data[k]
           decile    == DecileOf(grid_data.median_value, deciles)
       IN  m' = [m EXCEPT !.squares =
                    Append(@, [ geometry       |-> grid_data.geometry,
                                grid_id        |-> grid_data.grid_id,
                                median_value   |-> grid_data.median_value,
                                property_count |-> grid_data.property_count,
                                decile         |-> decile,
                                color          |-> DecileColor(decile) ])]
    /\ k' = k + 1
    /\ UNCHANGED <<gdf, gdf_crs, grid_size_meters, pc, calls, valid_data, xmin, ymin,
                   xmax, ymax, x_cells, y_cells, deciles, i, j,
                   grid_squares_with_data, visited, returned, log>>
    /\ UNCHANGED otherVars

\* lines 340-344: the legend, then return m
Return ==
    /\ pc = "draw"
    /\ k > Len(grid_squares_with_data)
    /\ m' = [m EXCEPT !.legend = TRUE]
    /\ returned' = Append(returned, Summary(m))
    /\ pc' = "returned"
    /\ UNCHANGED <<gdf, gdf_crs, grid_size_meters, calls, valid_data, xmin, ymin,
                   xmax, ymax, x_cells, y_cells, deciles, i, j,
                   grid_squares_with_data, k, visited, log>>
    /\ UNCHANGED otherVars

\* the caller invokes the method again with the same arguments
Reinvoke ==
    /\ pc = "returned"
    /\ calls < MaxCalls
    /\ calls' = calls + 1
    /\ pc' = "ready"
    /\ UNCHANGED <<gdf, gdf_crs, grid_size_meters, valid_data, m, xmin, ymin, xmax,
                   ymax, x_cells, y_cells, deciles, i, j, grid_squares_with_data,
                   k, visited, returned, log>>
    /\ UNCHANGED otherVars

\* one invocation
Next ==
    \/ RaiseValueError
    \/ Prepare
    \/ ProcessCell
    \/ DrawSquare
    \/ Return

Spec == Init /\ [][Next]_vars

\* up to MaxCalls invocations, one after the other, on the same arguments
NextRepeat ==
    \/ RaiseValueError
    \/ Prepare
    \/ ProcessCell
    \/ DrawSquare
    \/ Return
    \/ Reinvoke

SpecRepeat == Init /\ [][NextRepeat]_vars

\* one invocation on a frame as a caller may hold it
SpecRaw == InitRaw /\ [][Next]_vars

\* one invocation that is never suspended: the method is synchronous,
\* single-threaded code without I/O, so whenever it has a next step it
\* takes one
InitLive ==
    /\ Init
    /\ Len(gdf) <= MaxLiveRecords

SpecLive == InitLive /\ [][Next]_vars /\ WF_vars(Next)

\* four parcels with values out of 0, 100, 200, 300 and 400, in any row order:
\* all four in one cell (the same parcel four times, or two neighbouring
\* parcels and a side of 20) or in two cells
ScenarioDatasets == [1..4 -> [geometry : {"lot", "abutter"}, value : {0, 100, 200, 300, 400}]]

InitScenario ==
    /\ gdf \in ScenarioDatasets
    /\ gdf_crs = "EPSG:4326"
    /\ grid_size_meters \in Sides
    /\ Idle
    /\ SampleIdle
    /\ ScriptIdle
    /\ UniIdle
    /\ ParIdle
    /\ NvIdle
    /\ TierIdle

\* one invocation on four parcels
SpecScenario == InitScenario /\ [][Next]_vars

-----------------------------------------------------------------------------
(* The body of the cell loop, lines 232-270, run for the cells in any order *)

\* lines 232-270 for the cell (ci, cj) alone: what the body computes from
\* projected_data, its spatial index and the cell's rectangle
AggregateCell(ci, cj) ==
    LET grid_square  == GridSquare(ci, cj)
        possible     == SindexIntersection(valid_data, grid_square)
        intersecting == IF possible # {}
                        THEN Intersecting(valid_data, possible, grid_square)
                        ELSE {}
        emitted      == HasData(possible, intersecting)
    IN  [ emitted        |-> emitted,
          median_value   |-> IF emitted THEN Median(ValuesAt(valid_data, intersecting, 1)) ELSE 0,
          property_count |-> Cardinality(intersecting),
          rows           |-> intersecting ]

\* after the loop of lines 229-270 has ended, its body is run once more for
\* some cell that has not had its turn, whichever
AggregateAnyCell ==
    /\ pc = "draw"
    /\ \E ci \in 0..(x_cells - 1), cj \in 0..(y_cells - 1) :
          /\ <<ci, cj>> \notin DOMAIN cell_results
          /\ cell_results' = cell_results @@ (<<ci, cj>> :> AggregateCell(ci, cj))
    /\ UNCHANGED <<gridVars, sampleVars, scriptVars, uniVars, nvVars, tierVars>>

NextAnyOrder ==
    \/ RaiseValueError
    \/ Prepare
    \/ ProcessCell
    \/ AggregateAnyCell

SpecAnyOrder == Init /\ [][NextAnyOrder]_vars

-----------------------------------------------------------------------------
(* Thresholds and buckets of a list of values, lines 221-223 and 282-311 *)

\* lists of 1 to 10 values in steps of 0, 5 or 10 from 10 or 20 upwards, in
\* rising and in falling row order
Samples ==
    UNION { { [p \in 1..n |-> first + (p - 1) * step],
              [p \in 1..n |-> first + (n - p) * step] } :
            first \in {10, 20}, step \in {0, 5, 10}, n \in 1..10 }

InitSample ==
    /\ GridIdle
    /\ all_values \in Samples
    /\ thresholds = <<>>
    /\ buckets = <<>>
    /\ ScriptIdle
    /\ UniIdle
    /\ ParIdle
    /\ NvIdle
    /\ TierIdle

\* line 222: deciles = all_values.quantile([0.1, ..., 0.9])
ComputeDeciles ==
    /\ thresholds = <<>>
    /\ thresholds' = Deciles(all_values)
    /\ UNCHANGED <<all_values, buckets>>
    /\ UNCHANGED <<gridVars, scriptVars, uniVars, parVars, nvVars, tierVars>>

\* lines 282-311: the chain, for the next of the values
ClassifyValue ==
    /\ thresholds # <<>>
    /\ Len(buckets) < Len(all_values)
    /\ buckets' = Append(buckets, DecileOf(Scale * all_values[Len(buckets) + 1], thresholds))
    /\ UNCHANGED <<all_values, thresholds>>
    /\ UNCHANGED <<gridVars, scriptVars, uniVars, parVars, nvVars, tierVars>>

NextSample ==
    \/ ComputeDeciles
    \/ ClassifyValue

SpecSample == InitSample /\ [][NextSample]_vars

-----------------------------------------------------------------------------
(* scripts/boston_neighborhood_zones.py: main(), and the transit overlay of *)
(* GridBasedVisualizer that it calls                                        *)

\* sys.argv[1], "none" when the script is run without argument
Arguments == {"none", "0", "1", "2", "3", "4", "5", "abc"}

\* what the user types at the prompt; "^C" is a keyboard interrupt
Entries == {"0", "1", "2", "3", "4", "5", "abc", "^C"}

\* int(s) succeeds
IsInteger(s) == s \in {"0", "1", "2", "3", "4", "5"}

\* int(s)
IntOf(s) ==
    CASE s = "0" -> 0 [] s = "1" -> 1 [] s = "2" -> 2
      [] s = "3" -> 3 [] s = "4" -> 4 [] s = "5" -> 5

\* the test "choice in [1, 2, 3, 4]" left out: any integer is taken
ValidChoiceAnyInteger(s) == IsInteger(s)

\* lines 174-175 and 212-213: int(...) succeeds and choice in [1, 2, 3, 4]
ValidChoice(s) == IsInteger(s) /\ IntOf(s) \in {1, 2, 3, 4}

\* what load_boston_data returns: a frame in EPSG:4326 that holds valid
\* records only (lines 107-119)
LoadedFrames == {d \in Datasets : Len(d) <= 1 /\ ValidData(d) = d}

\* the rows of stops.txt: vehicle_type 1 is heavy rail and 3 is bus, metro
\* says that the municipality is one of metro_cities, located that stop_lat
\* and stop_lon are both present
StopRows == [vehicle_type : {1, 3}, metro : BOOLEAN, located : BOOLEAN]

\* stops.txt: missing or unreadable, or with up to MaxStops rows
StopsFiles ==
    {NoFile} \cup
    { [readable |-> TRUE, rows |-> s] : s \in UNION {[1..n -> StopRows] : n \in 0..MaxStops} }

\* the filters without the one on vehicle_type
IsRailStopAnyVehicle(row) == row.metro /\ row.located

\* lines 59-64 and 80 of grid_visualizer.py: the three filters on a row
IsRailStop(row) == row.metro /\ row.vehicle_type \in {0, 1, 2} /\ row.located

\* lines 51-87: None when anything raised, the filtered rows otherwise
LoadRailOutcome(file) ==
    IF file.readable
    THEN [none |-> FALSE, rows |-> SelectSeq(file.rows, IsRailStop)]
    ELSE NoStops

\* line 454: rail_stops is not None and len(rail_stops) > 0
HasStops(stops) == ~stops.none /\ Len(stops.rows) > 0

\* line 91: stops_df is None or stops_df.empty
OverlaySkipped(stops) == stops.none \/ stops.rows = <<>>

\* lines 67-77: transit_type of a row
TransitType(row) ==
    CASE row.vehicle_type = 0 -> "Green Line"
      [] row.vehicle_type = 1 -> "Heavy Rail"
      [] row.vehicle_type = 2 -> "Commuter Rail"
      [] OTHER -> "Rail"

\* lines 97-104: colors.get(transit_type, "#333333")
MarkerColor(type) ==
    CASE type = "Heavy Rail" -> "#DA291C"
      [] type = "Green Line" -> "#00843D"
      [] type = "Commuter Rail" -> "#80276C"
      [] OTHER -> "#333333"

InitScript ==
    /\ GridIdle
    /\ SampleIdle
    /\ UniIdle
    /\ ParIdle
    /\ NvIdle
    /\ TierIdle
    /\ argv \in Arguments
    /\ choice = 0
    /\ main_pc = "choose"
    /\ error = "none"
    /\ exit_status = "running"
    /\ stops_file = NoFile
    /\ rail_stops = NoStops
    /\ transit_markers = <<>>
    /\ transit_legend = FALSE
    /\ saved = FALSE

\* the variables of the grid that main() and the overlay leave alone
gridLocals == <<grid_size_meters, pc, calls, valid_data, m, xmin, ymin, xmax, ymax,
                x_cells, y_cells, deciles, i, j, grid_squares_with_data, k, visited,
                returned>>

\* lines 171-182 of the script: the choice comes from the command line
ChoiceFromArgument ==
    /\ main_pc = "choose"
    /\ argv # "none"
    /\ IF ValidChoice(argv)
       THEN /\ choice' = IntOf(argv)
            /\ main_pc' = "load"
            /\ exit_status' = exit_status
       ELSE /\ choice' = choice
            /\ main_pc' = "exited"
            /\ exit_status' = "1"
    /\ UNCHANGED <<argv, error, stops_file, rail_stops, transit_markers,
                   transit_legend, saved>>
    /\ UNCHANGED <<gridVars, sampleVars, uniVars, parVars, nvVars, tierVars>>

\* lines 210-221 of the script: one pass of the prompt loop
ChoiceFromPrompt ==
    /\ main_pc = "choose"
    /\ argv = "none"
    /\ \E entry \in Entries :
          IF entry = "^C"
          THEN /\ choice' = choice
               /\ main_pc' = "exited"
               /\ exit_status' = "0"
          ELSE IF ValidChoice(entry)
          THEN /\ choice' = IntOf(entry)
               /\ main_pc' = "load"
               /\ exit_status' = exit_status
          ELSE UNCHANGED <<choice, main_pc, exit_status>>
    /\ UNCHANGED <<argv, error, stops_file, rail_stops, transit_markers,
                   transit_legend, saved>>
    /\ UNCHANGED <<gridVars, sampleVars, uniVars, parVars, nvVars, tierVars>>

\* line 237 of the script: gdf = load_boston_data(), which raises
\* FileNotFoundError when the geodatabase is missing (lines 53-54)
LoadBostonData ==
    /\ main_pc = "load"
    /\ \/ /\ error' = "FileNotFoundError"
          /\ main_pc' = "raised"
          /\ exit_status' = "1"
          /\ log' = Append(log, Error("Error in main execution"))
          /\ UNCHANGED gdf
       \/ /\ \E frame \in LoadedFrames : gdf' = frame
          /\ main_pc' = "generate"
          /\ UNCHANGED <<error, exit_status, log>>
    /\ UNCHANGED <<argv, choice, stops_file, rail_stops, transit_markers,
                   transit_legend, saved>>
    /\ UNCHANGED <<gdf_crs, gridLocals, sampleVars, uniVars, parVars, nvVars, tierVars>>

\* lines 255-273 of the script, choices 1 and 2, up to the call of
\* create_grid_based_value_map (for choice 2 at line 444 of
\* create_grid_with_transit_overlay)
StartGridGeneration ==
    /\ main_pc = "generate"
    /\ choice \in {1, 2}
    /\ main_pc' = "grid"
    /\ log' = log \o (IF choice = 1
                       THEN << Info("Creating grid-based zones map") >>
                       ELSE << Info("Creating grid + transit overlay map"),
                               Info("Creating combined property grid + rail transit overlay"),
                               Info("Creating property value grid") >>)
    /\ UNCHANGED <<argv, choice, error, exit_status, stops_file, rail_stops,
                   transit_markers, transit_legend, saved>>
    /\ UNCHANGED <<gdf, gdf_crs, gridLocals, sampleVars, uniVars, parVars, nvVars, tierVars>>

\* lines 276-301 of the script, choices 3 and 4: the call of
\* visualizer.create_grid_with_university_overlay; GridBasedVisualizer
\* (grid_visualizer.py, lines 19-463) has no attribute of that name, so the
\* attribute lookup raises AttributeError, which lines 361-363 log and re-raise
UniversityOverlayMissing ==
    /\ main_pc = "generate"
    /\ choice \in {3, 4}
    /\ error' = "AttributeError"
    /\ main_pc' = "raised"
    /\ exit_status' = "1"
    /\ log' = log \o << Info("Creating map with university locations"),
                        Error("Error in main execution") >>
    /\ UNCHANGED <<argv, choice, stops_file, rail_stops, transit_markers,
                   transit_legend, saved>>
    /\ UNCHANGED <<gdf, gdf_crs, gridLocals, sampleVars, uniVars, parVars, nvVars, tierVars>>

\* create_grid_based_value_map(gdf) runs, called at line 260 of the script
\* or at line 444 of create_grid_with_transit_overlay
GridGeneration ==
    /\ main_pc = "grid"
    /\ Next

\* the ValueError of create_grid_based_value_map passes through
\* create_grid_with_transit_overlay and is logged and re-raised by main()
\* (lines 361-363 of the script)
GenerationRaised ==
    /\ main_pc = "grid"
    /\ pc = "raised"
    /\ error' = "ValueError"
    /\ main_pc' = "raised"
    /\ exit_status' = "1"
    /\ log' = Append(log, Error("Error in main execution"))
    /\ UNCHANGED <<argv, choice, stops_file, rail_stops, transit_markers,
                   transit_legend, saved>>
    /\ UNCHANGED <<gdf, gdf_crs, gridLocals, sampleVars, uniVars, parVars, nvVars, tierVars>>

\* line 260 of the script, choice 1: map_obj is the grid map
GridMapReturned ==
    /\ main_pc = "grid"
    /\ choice = 1
    /\ pc = "returned"
    /\ main_pc' = "save"
    /\ UNCHANGED <<argv, choice, error, exit_status, stops_file, rail_stops,
                   transit_markers, transit_legend, saved>>
    /\ UNCHANGED <<gridVars, sampleVars, uniVars, parVars, nvVars, tierVars>>

\* lines 453-463 of grid_visualizer.py with _load_rail_transit_data (49-87)
\* and the entry of _add_rail_transit_overlay (91-94)
LoadRailTransitData ==
    /\ main_pc = "grid"
    /\ choice = 2
    /\ pc = "returned"
    /\ \E file \in StopsFiles :
          LET stops == LoadRailOutcome(file)
              drawn == HasStops(stops) /\ ~OverlaySkipped(stops)
          IN  /\ stops_file' = file
              /\ rail_stops' = stops
              /\ main_pc' = IF drawn THEN "markers" ELSE "save"
              /\ log' = log \o << Info("Loading MBTA rail transit data") >>
                             \o (IF stops.none THEN << Warning("Could not load transit data") >>
                                 ELSE << Info("Loaded rail transit stops") >>)
                             \o (IF drawn THEN << Info("Adding rail transit markers") >>
                                 ELSE IF HasStops(stops) THEN << Info("Added rail transit stops to map") >>
                                 ELSE << Info("No rail transit data available") >>)
    /\ UNCHANGED <<argv, choice, error, exit_status, transit_markers,
                   transit_legend, saved>>
    /\ UNCHANGED <<gdf, gdf_crs, gridLocals, sampleVars, uniVars, parVars, nvVars, tierVars>>

\* lines 103-116 of grid_visualizer.py: one pass of the loop over the stops
AddCircleMarker ==
    /\ main_pc = "markers"
    /\ Len(transit_markers) < Len(rail_stops.rows)
    /\ LET stop == rail_stops.rows[Len(transit_markers) + 1]
       IN  transit_markers' = Append(transit_markers,
                                     [ stop  |-> Len(transit_markers) + 1,
                                       color |-> MarkerColor(TransitType(stop)) ])
    /\ UNCHANGED <<argv, choice, main_pc, error, exit_status, stops_file, rail_stops,
                   transit_legend, saved>>
    /\ UNCHANGED <<gridVars, sampleVars, uniVars, parVars, nvVars, tierVars>>

\* lines 118-121, 123-136 and 457 of grid_visualizer.py: the legend, and the
\* return to create_grid_with_transit_overlay and to main()
AddTransitLegend ==
    /\ main_pc = "markers"
    /\ Len(transit_markers) = Len(rail_stops.rows)
    /\ transit_legend' = TRUE
    /\ main_pc' = "save"
    /\ log' = Append(log, Info("Added rail transit stops to map"))
    /\ UNCHANGED <<argv, choice, error, exit_status, stops_file, rail_stops,
                   transit_markers, saved>>
    /\ UNCHANGED <<gdf, gdf_crs, gridLocals, sampleVars, uniVars, parVars, nvVars, tierVars>>

\* lines 304-306 of the script and 401-412 of grid_visualizer.py
SaveMap ==
    /\ main_pc = "save"
    /\ saved' = TRUE
    /\ main_pc' = "done"
    /\ log' = log \o << Info("Grid-based property value map saved"),
                        Info("generated successfully") >>
    /\ UNCHANGED <<argv, choice, error, exit_status, stops_file, rail_stops,
                   transit_markers, transit_legend>>
    /\ UNCHANGED <<gdf, gdf_crs, gridLocals, sampleVars, uniVars, parVars, nvVars, tierVars>>

NextScript ==
    \/ ChoiceFromArgument
    \/ ChoiceFromPrompt
    \/ LoadBostonData
    \/ StartGridGeneration
    \/ UniversityOverlayMissing
    \/ GridGeneration
    \/ GenerationRaised
    \/ GridMapReturned
    \/ LoadRailTransitData
    \/ AddCircleMarker
    \/ AddTransitLegend
    \/ SaveMap

SpecScript == InitScript /\ [][NextScript]_vars

-----------------------------------------------------------------------------
(* BostonUniversityData.get_largest_universities                            *)
(* (src/src/real_estate_visualizer/university_data.py)                      *)

\* the "enrollment" entries of self.universities, in the order of the list
RosterEnrollments ==
    << 36624, 33676, 31345, 17597, 15810, 15280, 13274, 11920, 9942, 8545,
       8448, 7131, 6321, 6697, 5984, 5670, 5452, 5302, 5264, 4495,
       4018, 3982, 3684, 3599, 3134, 2603, 2479, 2461, 2451, 2242 >>

\* a university is a dict; "name" is its position in the stored list here
RosterOf(enrollments) ==
    [p \in 1..Len(enrollments) |-> [name |-> p, enrollment |-> enrollments[p]]]

\* the list of the class, and every list of up to MaxRoster universities
\* in any stored order, equal enrollments included
Rosters ==
    {RosterOf(RosterEnrollments)} \cup
    UNION { {RosterOf(f) : f \in [1..n -> 1..MaxEnrollment]} : n \in 0..MaxRoster }

RECURSIVE InsertByEnrollment(_, _)
\* u, which was stored before everything in s, goes in front of the first
\* element of s that is not larger: sorted() is stable, reverse=True included
InsertByEnrollment(u, s) ==
    IF s = <<>> THEN <<u>>
    ELSE IF Head(s).enrollment <= u.enrollment THEN <<u>> \o s
    ELSE <<Head(s)>> \o InsertByEnrollment(u, Tail(s))

\* the list taken as it is stored
AsStored(roster) == roster

RECURSIVE SortedByEnrollment(_)
\* line 369: sorted(self.universities, key=lambda x: x["enrollment"], reverse=True)
SortedByEnrollment(roster) ==
    IF roster = <<>> THEN <<>>
    ELSE InsertByEnrollment(Head(roster), SortedByEnrollment(Tail(roster)))

\* lines 369-371: [:count], for a count that is not negative
FirstCount(s, n) == SubSeq(s, 1, IF n < Len(s) THEN n ELSE Len(s))

InitUniversity ==
    /\ GridIdle
    /\ SampleIdle
    /\ ScriptIdle
    /\ ParIdle
    /\ NvIdle
    /\ TierIdle
    /\ universities \in Rosters
    /\ count \in 0..(Len(universities) + 1)
    /\ largest = <<>>
    /\ uni_pc = "ready"

\* lines 367-371
GetLargestUniversities ==
    /\ uni_pc = "ready"
    /\ largest' = FirstCount(SortedByEnrollment(universities), count)
    /\ uni_pc' = "returned"
    /\ UNCHANGED <<universities, count>>
    /\ UNCHANGED <<gridVars, sampleVars, scriptVars, parVars, nvVars, tierVars>>

NextUniversity == GetLargestUniversities

SpecUniversity == InitUniversity /\ [][NextUniversity]_vars

-----------------------------------------------------------------------------
(* NeighborhoodValueVisualizer.create_grid_based_value_map                  *)
(* (src/src/real_estate_visualizer/improved_heat_maps.py, lines 690-896),   *)
(* called with the arguments of the call of GridBasedVisualizer once that   *)
(* call has ended                                                           *)

\* line 725: notna() and > 0
NvIsValid(r) == r.value # NaN /\ r.value > 0

NvValidData(g) == SelectSeq(g, NvIsValid)

\* line 751: padding = grid_size_meters * 0.1
NvPadding(side) == (side * PaddingPercent) \div 100

\* lines 761-762: int(np.ceil((hi - lo) / grid_size_meters)), for hi > lo
NvNumCells(lo, hi, side) == ((hi - lo) + side - 1) \div side

\* lines 784-790: box(x_left, y_bottom, x_right, y_top)
NvGridSquare(ci, cj) ==
    << nv_xmin + ci * grid_size_meters,       nv_ymin + cj * grid_size_meters,
       nv_xmin + (ci + 1) * grid_size_meters, nv_ymin + (cj + 1) * grid_size_meters >>

\* lines 797 and 804: the two tests that guard the append
NvHasData(idxs, rows) == idxs # {} /\ rows # {}

\* lines 781-782: the cell after (ci, cj) in "for i ...: for j ...:"
NvLoopNext(ci, cj) ==
    IF cj + 1 < nv_y_cells THEN <<ci, cj + 1>> ELSE <<ci + 1, 0>>

NvInRange(ci, cj) == ci < nv_x_cells /\ cj < nv_y_cells

\* lines 834-863: the if / elif chain, d being the nine thresholds
NvDecileOf(median_val, d) ==
    IF median_val <= d[1] THEN 1
    ELSE IF median_val <= d[2] THEN 2
    ELSE IF median_val <= d[3] THEN 3
    ELSE IF median_val <= d[4] THEN 4
    ELSE IF median_val <= d[5] THEN 5
    ELSE IF median_val <= d[6] THEN 6
    ELSE IF median_val <= d[7] THEN 7
    ELSE IF median_val <= d[8] THEN 8
    ELSE IF median_val <= d[9] THEN 9
    ELSE 10

\* lines 835-862: the colour set in each branch of the chain
NvDecileColor(d) ==
    << "#08306b", "#08519c", "#3182bd", "#6baed6", "#9ecae1",
       "#c6dbef", "#fcae91", "#fb6a4a", "#de2d26", "#a50f15" >>[d]

\* the caller goes on to the second method when the first call has ended
FirstCallEnded == pc \in {"raised", "returned"}

\* the caller calls the method with the same gdf and grid_size_meters
NvCall ==
    /\ FirstCallEnded
    /\ nv_pc = "off"
    /\ nv_pc' = "ready"
    /\ UNCHANGED <<nv_valid_data, nv_m, nv_xmin, nv_ymin, nv_xmax, nv_ymax,
                   nv_x_cells, nv_y_cells, nv_deciles, nv_i, nv_j,
                   nv_grid_squares_with_data, nv_k>>
    /\ UNCHANGED <<gridVars, sampleVars, scriptVars, uniVars, parVars, tierVars>>

\* lines 717-718 and 727-728: raise ValueError
NvRaiseValueError ==
    /\ nv_pc = "ready"
    /\ gdf = <<>> \/ NvValidData(gdf) = <<>>
    /\ nv_pc' = "raised"
    /\ UNCHANGED <<nv_valid_data, nv_m, nv_xmin, nv_ymin, nv_xmax, nv_ymax,
                   nv_x_cells, nv_y_cells, nv_deciles, nv_i, nv_j,
                   nv_grid_squares_with_data, nv_k>>
    /\ UNCHANGED <<gridVars, sampleVars, scriptVars, uniVars, parVars, tierVars>>

\* lines 717-779: everything up to the first cell
NvPrepare ==
    /\ nv_pc = "ready"
    /\ gdf # <<>>
    /\ NvValidData(gdf) # <<>>
    /\ \E data \in {NvValidData(gdf)} :
       \E bounds \in {TotalBounds(data)} :
       \E padding \in {NvPadding(grid_size_meters)} :
           /\ nv_valid_data' = data
           /\ nv_m' = [created |-> TRUE, squares |-> <<>>, legend |-> FALSE]
           /\ nv_xmin' = bounds[1] - padding
           /\ nv_ymin' = bounds[2] - padding
           /\ nv_xmax' = bounds[3] + padding
           /\ nv_ymax' = bounds[4] + padding
           /\ nv_x_cells' = NvNumCells(bounds[1] - padding, bounds[3] + padding,
                                       grid_size_meters)
           /\ nv_y_cells' = NvNumCells(bounds[2] - padding, bounds[4] + padding,
                                       grid_size_meters)
           /\ nv_deciles' = Deciles(ValuesOf(data))
    /\ nv_grid_squares_with_data' = <<>>
    /\ nv_i' = 0 /\ nv_j' = 0
    /\ nv_k' = 1
    /\ nv_pc' = IF nv_x_cells' > 0 /\ nv_y_cells' > 0 THEN "grid" ELSE "draw"
    /\ UNCHANGED <<gridVars, sampleVars, scriptVars, uniVars, parVars, tierVars>>

\* lines 781-822: one pass of the body of the nested loops
NvProcessCell ==
    /\ nv_pc = "grid"
    /\ \E grid_square \in {NvGridSquare(nv_i, nv_j)} :
       \E possible \in {SindexIntersection(nv_valid_data, grid_square)} :
       \E intersecting \in {IF possible # {}
                            THEN Intersecting(nv_valid_data, possible, grid_square)
                            ELSE {}} :
       \E next \in {NvLoopNext(nv_i, nv_j)} :
           /\ nv_grid_squares_with_data' =
                IF NvHasData(possible, intersecting)
                THEN Append(nv_grid_squares_with_data,
                            [ geometry       |-> grid_square,
                              median_value   |-> Median(ValuesAt(nv_valid_data, intersecting, 1)),
                              property_count |-> Cardinality(intersecting),
                              grid_id        |-> <<nv_i, nv_j>> ])
                ELSE nv_grid_squares_with_data
           /\ nv_i' = next[1]
           /\ nv_j' = next[2]
           /\ nv_pc' = IF NvInRange(next[1], next[2]) THEN "grid" ELSE "draw"
    /\ UNCHANGED <<nv_valid_data, nv_m, nv_xmin, nv_ymin, nv_xmax, nv_ymax,
                   nv_x_cells, nv_y_cells, nv_deciles, nv_k>>
    /\ UNCHANGED <<gridVars, sampleVars, scriptVars, uniVars, parVars, tierVars>>

\* lines 829-889: one pass of the drawing loop
NvDrawSquare ==
    /\ nv_pc = "draw"
    /\ nv_k <= Len(nv_grid_squares_with_data)
    /\ LET grid_data == nv_grid_squares_with_data[nv_k]
           decile    == NvDecileOf(grid_data.median_value, nv_deciles)
       IN  nv_m' = [nv_m EXCEPT !.squares =
                    Append(@, [ geometry       |-> grid_data.geometry,
                                grid_id        |-> grid_data.grid_id,
                                median_value   |-> grid_data.median_value,
                                property_count |-> grid_data.property_count,
                                decile         |-> decile,
                                color          |-> NvDecileColor(decile) ])]
    /\ nv_k' = nv_k + 1
    /\ UNCHANGED <<nv_pc, nv_valid_data, nv_xmin, nv_ymin, nv_xmax, nv_ymax,
                   nv_x_cells, nv_y_cells, nv_deciles, nv_i, nv_j,
                   nv_grid_squares_with_data>>
    /\ UNCHANGED <<gridVars, sampleVars, scriptVars, uniVars, parVars, tierVars>>

\* lines 892-896: the legend, then return m
NvReturn ==
    /\ nv_pc = "draw"
    /\ nv_k > Len(nv_grid_squares_with_data)
    /\ nv_m' = [nv_m EXCEPT !.legend = TRUE]
    /\ nv_pc' = "returned"
    /\ UNCHANGED <<nv_valid_data, nv_xmin, nv_ymin, nv_xmax, nv_ymax,
                   nv_x_cells, nv_y_cells, nv_deciles, nv_i, nv_j,
                   nv_grid_squares_with_data, nv_k>>
    /\ UNCHANGED <<gridVars, sampleVars, scriptVars, uniVars, parVars, tierVars>>

NextBoth ==
    \/ Next
    \/ NvCall
    \/ NvRaiseValueError
    \/ NvPrepare
    \/ NvProcessCell
    \/ NvDrawSquare
    \/ NvReturn

\* one call of each of the two methods on the same arguments
SpecBoth == Init /\ [][NextBoth]_vars

-----------------------------------------------------------------------------
(* NeighborhoodValueVisualizer.create_multi_tier_heat_map                   *)
(* (src/src/real_estate_visualizer/improved_heat_maps.py, lines 226-356).   *)
(* The quantiles at 0.33, 0.67 and 0.90 have hundredths, so they are        *)
(* carried in hundredths (PercentScale) and values are compared with them   *)
(* in hundredths.                                                           *)

\* a frame of parcels "lot" with the values of a list
SampleFrame(values) == [p \in 1..Len(values) |-> [geometry |-> "lot", value |-> values[p]]]

\* the frames the method is called with: the small frames of the grid, and
\* longer ones with the values of the samples
TierInputs == Datasets \cup {SampleFrame(s) : s \in Samples}

\* line 256: notna() and > 0
TierIsValid(r) == r.value # NaN /\ r.value > 0

TierValidData(g) == SelectSeq(g, TierIsValid)

\* line 276: Series.quantile(pct / 100) of the sorted values s, linear
\* interpolation, in hundredths
QuantilePercent(s, pct) ==
    LET pos  == (Len(s) - 1) * pct
        lo   == pos \div PercentScale
        frac == pos % PercentScale
    IN  IF frac = 0 THEN PercentScale * s[lo + 1]
        ELSE PercentScale * s[lo + 1] + frac * (s[lo + 2] - s[lo + 1])

\* line 276: q33, q67, q90 = values.quantile([0.33, 0.67, 0.90])
TierQuantiles(values) ==
    LET s == Sorted(values)
    IN  << QuantilePercent(s, 33), QuantilePercent(s, 67), QuantilePercent(s, 90) >>

\* the masks with the lower end of tier 2 included: values >= q33
InTierInclusive(tier, v, q) ==
    CASE tier = 4 -> v > q[3]
      [] tier = 3 -> v > q[2] /\ v <= q[3]
      [] tier = 2 -> v >= q[1] /\ v <= q[2]
      [] tier = 1 -> v <= q[1]

\* lines 282, 300, 318 and 336: the boolean masks of the four tiers, for a
\* value v in hundredths and q = <<q33, q67, q90>>
InTier(tier, v, q) ==
    CASE tier = 4 -> v > q[3]
      [] tier = 3 -> v > q[2] /\ v <= q[3]
      [] tier = 2 -> v > q[1] /\ v <= q[2]
      [] tier = 1 -> v <= q[1]

\* tierN_data, as the positions of the rows kept
TierData(tier, data, q) ==
    {p \in 1..Len(data) : InTier(tier, PercentScale * data[p].value, q)}

\* lines 286-288: the centroid of the geometry has a latitude and a
\* longitude (not (pd.isna(lat) or pd.isna(lon)))
HasCentroid(geometry) == GeometryOf(geometry) # {}

\* lines 284-289: heat_data_N, as the positions of the rows whose centroid
\* is appended
HeatData(data, idxs) == {p \in idxs : HasCentroid(data[p].geometry)}

\* lines 289, 306, 323 and 340: the intensity of each tier's points, in tenths
TierIntensity(tier) == << 6, 7, 8, 10 >>[tier]

InitTier ==
    /\ gdf \in TierInputs
    /\ gdf_crs = "EPSG:4326"
    /\ grid_size_meters \in {Min(Sides)}
    /\ Idle
    /\ SampleIdle
    /\ ScriptIdle
    /\ UniIdle
    /\ ParIdle
    /\ NvIdle
    /\ tier_pc = "ready"
    /\ tier_valid_data = <<>>
    /\ quantiles = <<>>
    /\ heat_layers = <<>>

\* lines 248-249 and 258-259: raise ValueError
TierRaiseValueError ==
    /\ tier_pc = "ready"
    /\ gdf = <<>> \/ TierValidData(gdf) = <<>>
    /\ tier_pc' = "raised"
    /\ UNCHANGED <<tier_valid_data, quantiles, heat_layers>>
    /\ UNCHANGED <<gridVars, sampleVars, scriptVars, uniVars, parVars, nvVars>>

\* lines 248-276: everything up to the first tier
TierPrepare ==
    /\ tier_pc = "ready"
    /\ gdf # <<>>
    /\ TierValidData(gdf) # <<>>
    /\ tier_valid_data' = TierValidData(gdf)
    /\ quantiles' = TierQuantiles(ValuesOf(TierValidData(gdf)))
    /\ tier_pc' = "tier4"
    /\ UNCHANGED heat_layers
    /\ UNCHANGED <<gridVars, sampleVars, scriptVars, uniVars, parVars, nvVars>>

\* one of the four blocks: the mask, and when the tier is not empty a
\* HeatMap of its points added to the map
AddHeatLayer(tier, here, then) ==
    /\ tier_pc = here
    /\ LET tier_data == TierData(tier, tier_valid_data, quantiles)
       IN  heat_layers' =
               IF tier_data # {}
               THEN Append(heat_layers,
                           [ tier      |-> tier,
                             points    |-> HeatData(tier_valid_data, tier_data),
                             intensity |-> TierIntensity(tier) ])
               ELSE heat_layers
    /\ tier_pc' = then
    /\ UNCHANGED <<tier_valid_data, quantiles>>
    /\ UNCHANGED <<gridVars, sampleVars, scriptVars, uniVars, parVars, nvVars>>

\* lines 282-297
AddTier4 == AddHeatLayer(4, "tier4", "tier3")

\* lines 300-315
AddTier3 == AddHeatLayer(3, "tier3", "tier2")

\* lines 318-333
AddTier2 == AddHeatLayer(2, "tier2", "tier1")

\* lines 336-351
AddTier1 == AddHeatLayer(1, "tier1", "legend")

\* lines 354-356: the legend, then return m
TierReturn ==
    /\ tier_pc = "legend"
    /\ tier_pc' = "returned"
    /\ UNCHANGED <<tier_valid_data, quantiles, heat_layers>>
    /\ UNCHANGED <<gridVars, sampleVars, scriptVars, uniVars, parVars, nvVars>>

NextTier ==
    \/ TierRaiseValueError
    \/ TierPrepare
    \/ AddTier4
    \/ AddTier3
    \/ AddTier2
    \/ AddTier1
    \/ TierReturn

SpecTier == InitTier /\ [][NextTier]_vars

-----------------------------------------------------------------------------
(* Oracles used by the properties below *)

\* brute force: the valid records whose geometry meets rect, every record tested
TrulyIntersecting(rect) ==
    {p \in 1..Len(valid_data) : Intersects(GeometryOf(valid_data[p].geometry), rect)}

\* the square of cell (ci, cj), from the padded origin and the side
SquareOf(cell) ==
    << xmin + cell[1] * grid_size_meters,       ymin + cell[2] * grid_size_meters,
       xmin + (cell[1] + 1) * grid_size_meters, ymin + (cell[2] + 1) * grid_size_meters >>

EntriesOf(cell) ==
    {p \in 1..Len(grid_squares_with_data) : grid_squares_with_data[p].grid_id = cell}

\* the count the loop has emitted for a cell, 0 when it emitted nothing
EmittedCount(cell) ==
    IF EntriesOf(cell) = {} THEN 0
    ELSE grid_squares_with_data[CHOOSE p \in EntriesOf(cell) : TRUE].property_count

LoopDone == pc \in {"draw", "returned"}

\* the nested loops have just ended: the grid is complete, nothing is drawn
GridBuilt == pc = "draw" /\ k = 1

\* the r-th smallest of the values at the positions in P (1 <= r <= |P|)
ValueAtRank(P, r) ==
    CHOOSE a \in {valid_data[p].value : p \in P} :
        /\ Cardinality({p \in P : valid_data[p].value < a}) < r
        /\ Cardinality({p \in P : valid_data[p].value <= a}) >= r

-----------------------------------------------------------------------------
(* C1: a cell that no valid record truly intersects emits nothing: every    *)
(* entry of grid_squares_with_data has property_count >= 1 and belongs to a *)
(* cell that at least one valid record intersects.                          *)
C1_NoEntryForEmptyCell ==
    \A p \in 1..Len(grid_squares_with_data) :
        /\ grid_squares_with_data[p].property_count >= 1
        /\ TrulyIntersecting(SquareOf(grid_squares_with_data[p].grid_id)) # {}

\* the loop is over, it passed a cell whose index candidates all failed the
\* exact test, and that cell has no entry while another cell has one
C1_Witness ==
    /\ LoopDone
    /\ grid_squares_with_data # <<>>
    /\ \E v \in 1..Len(visited) :
        /\ TrulyIntersecting(visited[v].square) = {}
        /\ SindexIntersection(valid_data, visited[v].square) # {}
        /\ EntriesOf(visited[v].cell) = {}

(* C2: for every cell the loop has processed, the count obtained through    *)
(* the index and the exact filter equals the count of a brute-force exact   *)
(* test of every valid record against the cell.                             *)
C2_IndexChangesNoCount ==
    \A v \in 1..Len(visited) :
        /\ Cardinality(EntriesOf(visited[v].cell)) <= 1
        /\ EmittedCount(visited[v].cell) = Cardinality(TrulyIntersecting(visited[v].square))

\* a processed cell in which the index was over-inclusive (a candidate that
\* does not intersect) and that still has truly intersecting records, one of
\* them only touching the cell
C2_Witness ==
    \E v \in 1..Len(visited) :
        LET sq == visited[v].square
            T  == TrulyIntersecting(sq)
        IN  /\ T # {}
            /\ SindexIntersection(valid_data, sq) \ T # {}
            /\ EmittedCount(visited[v].cell) = Cardinality(T)
            /\ \E w \in 1..Len(visited), p \in 1..Len(valid_data) :
                   /\ p \in TrulyIntersecting(visited[w].square)
                   /\ Envelope(GeometryOf(valid_data[p].geometry))[1] = visited[w].square[3]

(* C3: the median of every emitted cell is the standard median of the       *)
(* values of the records intersecting the cell (middle value for an odd     *)
(* number, mean of the two middle values for an even number) and lies       *)
(* between the least and the greatest of them.                              *)
C3_StandardMedian ==
    \A p \in 1..Len(grid_squares_with_data) :
        LET e  == grid_squares_with_data[p]
            T  == TrulyIntersecting(SquareOf(e.grid_id))
            n  == Cardinality(T)
            vs == {valid_data[q].value : q \in T}
        IN  /\ n >= 1
            /\ 2 * e.median_value =
                  Scale * (ValueAtRank(T, (n + 1) \div 2) + ValueAtRank(T, (n \div 2) + 1))
            /\ Scale * Min(vs) <= e.median_value
            /\ e.median_value <= Scale * Max(vs)

\* one emitted cell holds an even number of records whose two middle values
\* differ, another holds three records
C3_Witness ==
    \E p, q \in 1..Len(grid_squares_with_data) :
        /\ grid_squares_with_data[p].property_count = 2
        /\ grid_squares_with_data[p].median_value % Scale # 0
        /\ grid_squares_with_data[q].property_count = 3

-----------------------------------------------------------------------------
(* Oracles for the grid *)

Prepared == pc \in {"grid", "draw", "returned"}

Area(r) == (r[3] - r[1]) * (r[4] - r[2])

RECURSIVE SumAreas(_)
SumAreas(vs) == IF vs = <<>> THEN 0 ELSE Area(Head(vs).square) + SumAreas(Tail(vs))

PaddedRegion == <<xmin, ymin, xmax, ymax>>

\* the rectangle the x_cells * y_cells squares of one side make up
GridExtent ==
    << xmin, ymin, xmin + x_cells * grid_size_meters, ymin + y_cells * grid_size_meters >>

Inside(r, q) == q[1] <= r[1] /\ r[3] <= q[3] /\ q[2] <= r[2] /\ r[4] <= q[4]

\* two rectangles share more than boundary
Overlap(r, q) == r[1] < q[3] /\ q[1] < r[3] /\ r[2] < q[4] /\ q[2] < r[4]

NoOverlap ==
    \A a, b \in 1..Len(visited) : a < b => ~Overlap(visited[a].square, visited[b].square)

\* every unit square of region lies in a visited cell
NoGapIn(region) ==
    \A x \in region[1]..(region[3] - 1), y \in region[2]..(region[4] - 1) :
        \E v \in 1..Len(visited) : Inside(<<x, y, x + 1, y + 1>>, visited[v].square)

\* the bounds of the valid records, corner by corner
DataCorners ==
    UNION {GeometryOf(valid_data[p].geometry) : p \in 1..Len(valid_data)}

RowMajorBefore(c, d) == c[2] < d[2] \/ (c[2] = d[2] /\ c[1] < d[1])

ColumnMajorBefore(c, d) == c[1] < d[1] \/ (c[1] = d[1] /\ c[2] < d[2])

(* C4 as stated: when the loop ends, the cells tile   the padded bounding  *)
(* box exactly: no gap, no overlap, and the cell areas add up to the area   *)
(* of the padded region.                                                    *)
C4_ExactTiling ==
    GridBuilt =>
        /\ NoOverlap
        /\ NoGapIn(PaddedRegion)
        /\ SumAreas(visited) = Area(PaddedRegion)

(* C4 as amended: the cells tile, without gap or overlap, the rectangle     *)
(* that starts at the lower-left corner of the padded region and measures   *)
(* x_cells * side by y_cells * side; that rectangle contains the padded     *)
(* region, and equals it exactly when the padded width and height are both  *)
(* whole multiples of the side.                                             *)
C4_CoveringTiling ==
    GridBuilt =>
        /\ NoOverlap
        /\ NoGapIn(GridExtent)
        /\ \A v \in 1..Len(visited) : Inside(visited[v].square, GridExtent)
        /\ SumAreas(visited) = Area(GridExtent)
        /\ Inside(PaddedRegion, GridExtent)
        /\ (GridExtent = PaddedRegion) <=>
               /\ (xmax - xmin) % grid_size_meters = 0
               /\ (ymax - ymin) % grid_size_meters = 0

\* a finished grid of several columns and rows that reaches past the padded
\* region
C4_Witness ==
    /\ GridBuilt
    /\ x_cells >= 2 /\ y_cells >= 2
    /\ SumAreas(visited) > Area(PaddedRegion)

(* C5: the bounds are the data bounds moved out by a tenth of the side on   *)
(* each edge; x_cells and y_cells are the padded width and height divided   *)
(* by the side, rounded up; the loop builds x_cells * y_cells cells, and    *)
(* cell (i, j) is the square of one side whose lower-left corner is         *)
(* (xmin + i * side, ymin + j * side).                                      *)
C5_GridConstruction ==
    Prepared =>
        /\ 10 * (Min({r[1] : r \in DataCorners}) - xmin) = grid_size_meters
        /\ 10 * (Min({r[2] : r \in DataCorners}) - ymin) = grid_size_meters
        /\ 10 * (xmax - Max({r[3] : r \in DataCorners})) = grid_size_meters
        /\ 10 * (ymax - Max({r[4] : r \in DataCorners})) = grid_size_meters
        /\ (x_cells - 1) * grid_size_meters < xmax - xmin
        /\ xmax - xmin <= x_cells * grid_size_meters
        /\ (y_cells - 1) * grid_size_meters < ymax - ymin
        /\ ymax - ymin <= y_cells * grid_size_meters
        /\ \A v \in 1..Len(visited) :
            LET c  == visited[v].cell
                sq == visited[v].square
            IN  /\ c[1] \in 0..(x_cells - 1) /\ c[2] \in 0..(y_cells - 1)
                /\ sq[1] = xmin + c[1] * grid_size_meters
                /\ sq[2] = ymin + c[2] * grid_size_meters
                /\ sq[3] - sq[1] = grid_size_meters
                /\ sq[4] - sq[2] = grid_size_meters
        /\ \A v, w \in 1..Len(visited) : v # w => visited[v].cell # visited[w].cell
        /\ LoopDone => Len(visited) = x_cells * y_cells

\* the loop has ended on a grid of several columns and rows
C5_Witness ==
    /\ LoopDone
    /\ x_cells >= 2 /\ y_cells >= 2
    /\ Len(visited) = x_cells * y_cells

(* C6 as stated: the cells are built row by row (all cells of one row, by   *)
(* increasing column, before any cell of the next row) and                  *)
(* grid_squares_with_data keeps that order.                                 *)
C6_RowMajor ==
    /\ \A a, b \in 1..Len(visited) :
           a < b => RowMajorBefore(visited[a].cell, visited[b].cell)
    /\ \A a, b \in 1..Len(grid_squares_with_data) :
           a < b => RowMajorBefore(grid_squares_with_data[a].grid_id,
                                   grid_squares_with_data[b].grid_id)

(* C6 as amended: the cells are built column by column (all cells of one    *)
(* column i, by increasing row j, before any cell of the next column) and   *)
(* grid_squares_with_data keeps that order.                                 *)
C6_ColumnMajor ==
    /\ \A a, b \in 1..Len(visited) :
           a < b => ColumnMajorBefore(visited[a].cell, visited[b].cell)
    /\ \A a, b \in 1..Len(grid_squares_with_data) :
           a < b => ColumnMajorBefore(grid_squares_with_data[a].grid_id,
                                      grid_squares_with_data[b].grid_id)

\* a finished grid of several columns and rows with entries in two columns
\* and in two rows
C6_Witness ==
    /\ LoopDone
    /\ x_cells >= 2 /\ y_cells >= 2
    /\ \E a, b, c \in 1..Len(grid_squares_with_data) :
        /\ grid_squares_with_data[a].grid_id[1] # grid_squares_with_data[b].grid_id[1]
        /\ grid_squares_with_data[a].grid_id[2] # grid_squares_with_data[c].grid_id[2]

-----------------------------------------------------------------------------
(* C7: invoking the method again on the same input yields the same sequence *)
(* of (grid_id, median_value, property_count, decile), in the same order.   *)
C7_SameResultEachCall ==
    \A a, b \in 1..Len(returned) : returned[a] = returned[b]

\* a second invocation has returned, with several squares
C7_Witness ==
    /\ Len(returned) >= 2
    /\ Len(returned[2]) >= 2

\* in tenths: every value a median or a threshold can take (a valid value is
\* at least 1 and at most MaxValue), with one tenth below and one above
TenthsRange == (Scale - 1)..(Scale * MaxValue + 1)

(* C8: with the thresholds of the dataset, a smaller value never gets a     *)
(* higher bucket than a larger one.                                         *)
C8_Monotonic ==
    Prepared =>
        LET classified == {<<v, DecileOf(v, deciles)>> : v \in TenthsRange}
        IN  \A c1, c2 \in classified : c1[1] < c2[1] => c1[2] <= c2[2]

\* thresholds that are not all equal, under which at least three buckets
\* are in use
C8_Witness ==
    /\ pc = "draw"
    /\ deciles[1] < deciles[9]
    /\ Cardinality({DecileOf(v, deciles) : v \in TenthsRange}) >= 3

(* C9: every drawn cell has one bucket in 1..10: the position of the first  *)
(* threshold, in ascending order, that its median does not exceed, and 10   *)
(* when the median exceeds the ninth; a median equal to a cut point goes to *)
(* the bucket that ends at that cut point, not to the one above.            *)
C9_FirstThresholdBucket ==
    m # NoMap =>
        \A p \in 1..Len(m.squares) :
            LET sq == m.squares[p]
                F  == {q \in 1..9 : sq.median_value <= deciles[q]}
            IN  /\ sq.decile \in 1..10
                /\ sq.decile = IF F = {} THEN 10 ELSE Min(F)
                /\ \A q \in 1..9 :
                       sq.median_value = deciles[q] =>
                           /\ sq.decile <= q
                           /\ (q = 1 \/ deciles[q - 1] < deciles[q]) => sq.decile = q

\* a drawn cell whose median is exactly a cut point above the first one, and
\* a drawn cell above the ninth threshold
C9_Witness ==
    /\ m # NoMap
    /\ \E p, r \in 1..Len(m.squares), q \in 2..9 :
        /\ m.squares[p].median_value = deciles[q]
        /\ deciles[q - 1] < deciles[q]
        /\ m.squares[p].decile = q
        /\ m.squares[r].median_value > deciles[9]
        /\ m.squares[r].decile = 10

(* C10: a record that intersects several cells, a boundary it only touches  *)
(* included, is in the intersecting set of each of them, counts for one     *)
(* there and enters the median with its whole value.                        *)
C10_CountedInEveryCell ==
    \A v \in 1..Len(visited) :
        LET rows == visited[v].rows
            n    == Cardinality(rows)
        IN  /\ \A p \in 1..Len(valid_data) :
                   Intersects(GeometryOf(valid_data[p].geometry), SquareOf(visited[v].cell))
                       => p \in rows
            /\ EmittedCount(visited[v].cell) = n
            /\ n > 0 =>
                 \E e \in EntriesOf(visited[v].cell) :
                     2 * grid_squares_with_data[e].median_value =
                         Scale * (ValueAtRank(rows, (n + 1) \div 2)
                                  + ValueAtRank(rows, (n \div 2) + 1))

\* one record lies across the line between two cells and is in both sets,
\* another only touches a cell from outside and is in its set too
C10_Witness ==
    \E p, q \in 1..Len(valid_data), a, b, c \in 1..Len(visited) :
        LET ep == Envelope(GeometryOf(valid_data[p].geometry))
            eq == Envelope(GeometryOf(valid_data[q].geometry))
        IN  /\ a # b
            /\ p \in visited[a].rows /\ p \in visited[b].rows
            /\ ep[1] < visited[a].square[3] /\ visited[a].square[3] < ep[3]
            /\ q \in visited[c].rows
            /\ eq[1] = visited[c].square[3]
            /\ EmittedCount(visited[c].cell) = Cardinality(visited[c].rows)

(* C11: a call with zero valid records (no record at all, or every value    *)
(* missing or not positive) is either not yet past its checks or has raised:*)
(* no map, no grid cell, no cell entry, no legend and no log record exists, *)
(* and a call that raised had zero valid records.                           *)
C11_NoPartialOutput ==
    LET no_valid == \A p \in 1..Len(gdf) : gdf[p].value = NaN \/ gdf[p].value <= 0
    IN  /\ no_valid =>
              /\ pc \in {"ready", "raised"}
              /\ m = NoMap
              /\ valid_data = <<>>
              /\ visited = <<>>
              /\ grid_squares_with_data = <<>>
              /\ returned = <<>>
              /\ log = <<>>
        /\ pc = "raised" => no_valid

\* the call has raised on a frame that has rows, one with a missing value and
\* one with the value 0
C11_Witness ==
    /\ pc = "raised"
    /\ \E p, q \in 1..Len(gdf) : gdf[p].value = NaN /\ gdf[q].value = 0

\* the rectangle r lies in the interior of the rectangle q
StrictlyInside(r, q) == q[1] < r[1] /\ r[3] < q[3] /\ q[2] < r[2] /\ r[4] < q[4]

\* every valid record lies inside one and the same cell of the grid
AllInOneCell ==
    \E v \in 1..Len(visited) :
        \A p \in 1..Len(valid_data) :
            StrictlyInside(Envelope(GeometryOf(valid_data[p].geometry)), visited[v].square)

(* C12: four valid records with the values 100, 200, 300 and 400, all       *)
(* inside one grid cell, give exactly one entry of grid_squares_with_data,  *)
(* with median_value 250 and property_count 4.                              *)
C12_FourRecordsOneCell ==
    ( /\ LoopDone
      /\ Len(valid_data) = 4
      /\ {valid_data[p].value : p \in 1..4} = {100, 200, 300, 400}
      /\ AllInOneCell )
    => /\ Len(grid_squares_with_data) = 1
       /\ grid_squares_with_data[1].median_value = Scale * 250
       /\ grid_squares_with_data[1].property_count = 4

\* the four values, not in sorted row order, on two different parcels that
\* share a cell, after the loop has ended
C12_Witness ==
    /\ LoopDone
    /\ Len(valid_data) = 4
    /\ {valid_data[p].value : p \in 1..4} = {100, 200, 300, 400}
    /\ valid_data[1].value = 300 /\ valid_data[2].value = 100
    /\ valid_data[1].geometry # valid_data[2].geometry
    /\ AllInOneCell
    /\ Len(grid_squares_with_data) = 1

C14_EveryChoiceReachesSave ==
    (choice \in {1, 2, 3, 4} /\ gdf # <<>>) => main_pc # "raised"

\* create_grid_with_transit_overlay is past its call of the loader
OverlayEnded == choice = 2 /\ pc = "returned" /\ main_pc # "grid"

\* stops.txt could not be read, or none of its rows is a located rail stop
\* of the metro area
NoRailStopInFile ==
    \/ ~stops_file.readable
    \/ \A p \in 1..Len(stops_file.rows) :
           \/ stops_file.rows[p].vehicle_type \notin {0, 1, 2}
           \/ ~stops_file.rows[p].metro
           \/ ~stops_file.rows[p].located

(* C15: when the rail transit data cannot be loaded, or holds no rail stop, *)
(* create_grid_with_transit_overlay returns the map that                    *)
(* create_grid_based_value_map returned, with no transit marker and no      *)
(* transit legend on it, and raises nothing.                                *)
C15_TransitOverlayDegrades ==
    (OverlayEnded /\ NoRailStopInFile)
    => /\ main_pc \in {"save", "done"}
       /\ error = "none"
       /\ transit_markers = <<>>
       /\ ~transit_legend
       /\ m.created /\ m.legend
       /\ Summary(m) = returned[Len(returned)]
       /\ \A r \in 1..Len(log) : log[r].level # "ERROR"

\* the overlay has returned a map with a square on it, after stops.txt was
\* read and held two rows, a bus stop and a rail stop without coordinates
C15_Witness ==
    /\ OverlayEnded
    /\ main_pc = "done"
    /\ saved
    /\ Len(m.squares) > 0
    /\ stops_file.readable
    /\ Len(stops_file.rows) = 2
    /\ stops_file.rows[1].vehicle_type = 3
    /\ stops_file.rows[2].vehicle_type = 1 /\ ~stops_file.rows[2].located
    /\ transit_markers = <<>>

(* C16: get_largest_universities(count) returns min(count, number stored)   *)
(* universities (min(count, 30) for the list of the class), in              *)
(* non-increasing order of enrollment, each of them stored and none twice,  *)
(* each with an enrollment not below that of any university left out,       *)
(* whatever the stored order; the stored list is as it was.                 *)
C16_LargestUniversities ==
    uni_pc = "returned" =>
        LET n   == Len(universities)
            got == {largest[p].name : p \in 1..Len(largest)}
        IN  /\ Len(largest) = IF count < n THEN count ELSE n
            /\ universities = RosterOf(RosterEnrollments) =>
                   Len(largest) = IF count < 30 THEN count ELSE 30
            /\ \A p \in 1..(Len(largest) - 1) :
                   largest[p].enrollment >= largest[p + 1].enrollment
            /\ Cardinality(got) = Len(largest)
            /\ \A p \in 1..Len(largest) :
                   largest[p].name \in 1..n /\ largest[p] = universities[largest[p].name]
            /\ \A a \in got, b \in (1..n) \ got :
                   universities[a].enrollment >= universities[b].enrollment
            /\ \A p \in 1..n : universities[p].name = p

\* the ten largest of the list of the class, which is not stored in order:
\* its 14th university (6697) is returned before its 13th (6321)
C16_Witness ==
    /\ uni_pc = "returned"
    /\ universities = RosterOf(RosterEnrollments)
    /\ universities[13].enrollment < universities[14].enrollment
    /\ count = 14
    /\ largest[13].name = 14 /\ largest[14].name = 13

\* the positions of the caller's records that have a value above 0
ValidPositions == {p \in 1..Len(gdf) : gdf[p].value # NaN /\ gdf[p].value > 0}

\* the r-th smallest value of the caller's valid records
GlobalValueAtRank(r) ==
    CHOOSE a \in {gdf[p].value : p \in ValidPositions} :
        /\ Cardinality({p \in ValidPositions : gdf[p].value < a}) < r
        /\ r <= Cardinality({p \in ValidPositions : gdf[p].value <= a})

\* the q-th decile of the values of all valid records of the caller, by
\* linear interpolation between ranks, in tenths
GlobalDecile(q) ==
    LET n   == Cardinality(ValidPositions)
        pos == (n - 1) * q
        lo  == (pos \div 10) + 1
        hi  == IF lo < n THEN lo + 1 ELSE lo
    IN  Scale * GlobalValueAtRank(lo)
            + (pos % 10) * (GlobalValueAtRank(hi) - GlobalValueAtRank(lo))

(* C17: from the moment the cell loop starts until the call returns, the    *)
(* nine thresholds are the deciles of the values of all valid records of    *)
(* the input, a quantity in which neither the side length nor any cell      *)
(* occurs, and every drawn cell is classified against these thresholds.     *)
C17_GlobalThresholds ==
    Prepared =>
        LET global == [q \in 1..9 |-> GlobalDecile(q)]
        IN  /\ deciles = global
            /\ \A p \in 1..Len(m.squares) :
                   LET below == {q \in 1..9 : m.squares[p].median_value <= global[q]}
                   IN  m.squares[p].decile = IF below = {} THEN 10 ELSE Min(below)

\* the call has returned a map with two squares in different buckets, made
\* from a frame that has an invalid record next to its valid ones
C17_Witness ==
    /\ pc = "returned"
    /\ Len(m.squares) >= 2
    /\ m.squares[1].decile # m.squares[2].decile
    /\ \E p \in 1..Len(gdf) : gdf[p].value <= 0

\* the distinct values of the caller's valid records
DistinctValidValues == {gdf[p].value : p \in ValidPositions}

\* there are valid values, and fewer than ten different ones
Degenerate == DistinctValidValues # {} /\ Cardinality(DistinctValidValues) < 10

\* every entry has been drawn in exactly one bucket of 1..10, and entries
\* with the same median are in the same bucket
ClassifiedOnce ==
    /\ Len(m.squares) = Len(grid_squares_with_data)
    /\ \A p \in 1..Len(m.squares) :
           /\ m.squares[p].grid_id = grid_squares_with_data[p].grid_id
           /\ m.squares[p].decile \in 1..10
           /\ m.squares[p].color = DecileColor(m.squares[p].decile)
    /\ \A p, q \in 1..Len(m.squares) :
           m.squares[p].median_value = m.squares[q].median_value
               => m.squares[p].decile = m.squares[q].decile

(* C18 as stated: with fewer than ten distinct valid values (all identical  *)
(* included) the call raises nothing, every emitted cell is in exactly one  *)
(* bucket, and a warning about the distribution has been logged.            *)
C18_WarningLogged ==
    (Degenerate /\ pc = "returned")
    => /\ ClassifiedOnce
       /\ \E r \in 1..Len(log) : log[r].level = "WARNING"

(* C18 as the code has it: with fewer than ten distinct valid values (all   *)
(* identical included) the call raises nothing, every emitted cell is in    *)
(* exactly one bucket, and nothing but INFO records is logged: the          *)
(* distribution is neither detected nor reported.                           *)
C18_DegenerateStillClassified ==
    Degenerate
    => /\ pc # "raised"
       /\ pc = "returned" => ClassifiedOnce
       /\ \A r \in 1..Len(log) : log[r].level = "INFO"

\* the call has returned two squares made from records that all have the
\* same value: nine equal thresholds, and both squares in bucket 1
C18_Witness ==
    /\ pc = "returned"
    /\ Cardinality(DistinctValidValues) = 1
    /\ Cardinality(ValidPositions) >= 2
    /\ \A q \in 1..9 : deciles[q] = deciles[1]
    /\ Len(m.squares) >= 2
    /\ \A p \in 1..Len(m.squares) : m.squares[p].decile = 1

C20_InputNotMutated == [][gdf' = gdf /\ gdf_crs' = gdf_crs]_vars

\* the call has returned after it had to reproject the frame and to drop a
\* row with a missing value, and the caller's frame still has that row and
\* its own coordinate reference system
C20_Witness ==
    /\ pc = "returned"
    /\ gdf_crs # "EPSG:4326"
    /\ Len(valid_data) < Len(gdf)
    /\ \E p \in 1..Len(gdf) : gdf[p].value = NaN

\* the caller's valid records whose geometry meets the rectangle rect
ValidMeeting(rect) ==
    {p \in ValidPositions : Intersects(GeometryOf(gdf[p].geometry), rect)}

\* the r-th smallest value of the caller's records at the positions in P
InputValueAtRank(P, r) ==
    CHOOSE a \in {gdf[p].value : p \in P} :
        /\ Cardinality({p \in P : gdf[p].value < a}) < r
        /\ r <= Cardinality({p \in P : gdf[p].value <= a})

(* C21: only the records with a value above 0 count.  When the call has     *)
(* returned, the padded bounds are those of the valid records, the          *)
(* thresholds are the deciles of their values, and every cell's record      *)
(* count and median are those of the valid records that meet the cell: a    *)
(* record with a missing, zero or negative value appears in none of them.   *)
C21_InvalidRecordsExcluded ==
    pc = "returned" =>
        LET envs == {Envelope(GeometryOf(gdf[p].geometry)) : p \in ValidPositions}
            pad  == (grid_size_meters * PaddingPercent) \div 100
        IN  /\ Len(valid_data) = Cardinality(ValidPositions)
            /\ xmin = Min({e[1] : e \in envs}) - pad
            /\ ymin = Min({e[2] : e \in envs}) - pad
            /\ xmax = Max({e[3] : e \in envs}) + pad
            /\ ymax = Max({e[4] : e \in envs}) + pad
            /\ \A q \in 1..9 : deciles[q] = GlobalDecile(q)
            /\ \A v \in 1..Len(visited) :
                   LET P == ValidMeeting(visited[v].square)
                       n == Cardinality(P)
                   IN  /\ Cardinality(visited[v].rows) = n
                       /\ EmittedCount(visited[v].cell) = n
                       /\ \A e \in EntriesOf(visited[v].cell) :
                              2 * grid_squares_with_data[e].median_value =
                                  Scale * (InputValueAtRank(P, (n + 1) \div 2)
                                           + InputValueAtRank(P, (n \div 2) + 1))

\* the call has returned; the frame holds a record with a missing value
\* that lies outside the padded bounds, and a record with the value 0 on
\* the same parcel as a valid record
C21_Witness ==
    /\ pc = "returned"
    /\ \E p \in 1..Len(gdf) :
          /\ gdf[p].value = NaN
          /\ Envelope(GeometryOf(gdf[p].geometry))[3] > xmax
    /\ \E p \in 1..Len(gdf), q \in ValidPositions :
          gdf[p].value = 0 /\ gdf[p].geometry = gdf[q].geometry

\* the call has returned, the nested loops have built every cell of the
\* grid exactly once and the drawing loop has drawn every entry exactly
\* once, in the order of the list
PassComplete ==
    /\ pc = "returned"
    /\ m.legend
    /\ Len(visited) = x_cells * y_cells
    /\ \A ci \in 0..(x_cells - 1), cj \in 0..(y_cells - 1) :
           Cardinality({v \in 1..Len(visited) : visited[v].cell = <<ci, cj>>}) = 1
    /\ Len(m.squares) = Len(grid_squares_with_data)
    /\ \A p \in 1..Len(m.squares) :
           m.squares[p].grid_id = grid_squares_with_data[p].grid_id

(* C22: a call on an input that has a valid record terminates: it comes to  *)
(* return the map, after the nested loops have visited each of the          *)
(* x_cells * y_cells cells exactly once and the drawing loop each entry of  *)
(* grid_squares_with_data exactly once.                                     *)
C22_Terminates == (pc = "ready" /\ ValidPositions # {}) ~> PassComplete

\* a finished pass over a grid of several cells, one of them without any
\* record, that has drawn at least two squares
C22_Witness ==
    /\ PassComplete
    /\ x_cells * y_cells > Len(grid_squares_with_data)
    /\ Len(m.squares) >= 2

(* C23: the style of a square is bound when the square is created: at any  *)
(* time, and so after the drawing loop has finished, the style function of  *)
(* the p-th square returns the colour of the decile of the p-th entry of    *)
(* grid_squares_with_data, whatever was drawn after it.                     *)
C23_StyleBoundAtCreation ==
    m.created =>
        \A p \in 1..Len(m.squares) :
            LET colour == DecileColor(DecileOf(grid_squares_with_data[p].median_value,
                                               deciles))
            IN  /\ StyleFunction(m, p).fillColor = colour
                /\ StyleFunction(m, p).color = colour

\* a returned map whose first and last squares have different colours
C23_Witness ==
    /\ pc = "returned"
    /\ Len(m.squares) >= 2
    /\ StyleFunction(m, 1).fillColor # StyleFunction(m, Len(m.squares)).fillColor

\* the texts that stand for one of the four choices
ChoiceTexts == {"1", "2", "3", "4"}

\* a step of the script seen from get_visualization_choice
ChoiceStep ==
    /\ (main_pc = "choose" /\ argv \in ChoiceTexts) =>
           main_pc' = "load" /\ choice' = IntOf(argv) /\ exit_status' = "running"
    /\ (main_pc = "choose" /\ argv \notin ChoiceTexts \cup {"none"}) =>
           main_pc' = "exited" /\ exit_status' = "1" /\ choice' = 0
    /\ (main_pc = "choose" /\ argv = "none") =>
           \/ main_pc' = "load" /\ choice' \in {1, 2, 3, 4} /\ exit_status' = "running"
           \/ main_pc' = "exited" /\ exit_status' = "0" /\ choice' = 0
    /\ main_pc' \notin {"choose", "exited"} => choice' \in {1, 2, 3, 4}
    /\ main_pc' = "exited" =>
           /\ gdf' = <<>> /\ pc' = "ready" /\ ~saved'
           /\ exit_status' = IF argv = "none" THEN "0" ELSE "1"
    /\ main_pc # "choose" => choice' = choice

RECURSIVE SumCounts(_)
\* the sum of property_count over a list of entries
SumCounts(entries) ==
    IF entries = <<>> THEN 0
    ELSE Head(entries).property_count + SumCounts(Tail(entries))

(* C25: every valid record is counted in at least one emitted cell: when    *)
(* the loops have ended, each valid record meets the square of an entry of  *)
(* grid_squares_with_data and is among the rows that entry counts, there is *)
(* at least one entry, the counts sum to at least the number of valid       *)
(* records and no count exceeds that number.                                *)
C25_EveryRecordCounted ==
    GridBuilt =>
        LET n == Cardinality(ValidPositions)
        IN  /\ Len(valid_data) = n
            /\ \A q \in 1..Len(valid_data) :
                   \E v \in 1..Len(visited) :
                       /\ q \in visited[v].rows
                       /\ \E e \in EntriesOf(visited[v].cell) :
                              Intersects(GeometryOf(valid_data[q].geometry),
                                         grid_squares_with_data[e].geometry)
            /\ Len(grid_squares_with_data) >= 1
            /\ SumCounts(grid_squares_with_data) >= n
            /\ \A e \in 1..Len(grid_squares_with_data) :
                   grid_squares_with_data[e].property_count <= n

\* the loops have ended on an input whose counts sum to more than the
\* number of valid records (a record counted in several cells) and that has
\* a cell with a single record
C25_Witness ==
    /\ GridBuilt
    /\ SumCounts(grid_squares_with_data) > Len(valid_data)
    /\ \E e \in 1..Len(grid_squares_with_data) :
           grid_squares_with_data[e].property_count = 1
    /\ \E e \in 1..Len(grid_squares_with_data) :
           grid_squares_with_data[e].property_count > 1

\* the values of bucket b under thresholds d: above threshold b - 1 (bucket 1
\* has no lower end) and up to threshold b (bucket 10 has no upper end)
InBucketInterval(v, b, d) ==
    /\ (b = 1 \/ d[b - 1] < v)
    /\ (b = 10 \/ v <= d[b])

\* in tenths: the sample's values and thresholds, and one tenth to each side
SamplePoints ==
    LET pts == {Scale * all_values[p] : p \in 1..Len(all_values)}
                  \cup {thresholds[q] : q \in 1..9}
    IN  pts \cup {v - 1 : v \in pts} \cup {v + 1 : v \in pts}

(* C26: for a non-empty collection of valid values the nine thresholds are  *)
(* non-decreasing and lie between the minimum and the maximum value, and    *)
(* the intervals of the buckets 1..10 partition the values: each value is   *)
(* in the interval of exactly one bucket, the one the chain gives it.       *)
C26_ThresholdsOrdered ==
    thresholds # <<>> =>
        LET vals == {all_values[p] : p \in 1..Len(all_values)}
        IN  /\ \A q \in 1..8 : thresholds[q] <= thresholds[q + 1]
            /\ \A q \in 1..9 : /\ Scale * Min(vals) <= thresholds[q]
                                /\ thresholds[q] <= Scale * Max(vals)
            /\ \A v \in SamplePoints :
                   /\ Cardinality({b \in 1..10 : InBucketInterval(v, b, thresholds)}) = 1
                   /\ InBucketInterval(v, DecileOf(v, thresholds), thresholds)

\* thresholds of values given in falling order, the first below the ninth,
\* with every value classified
C26_Witness ==
    /\ thresholds # <<>>
    /\ Len(all_values) >= 3
    /\ all_values[1] > all_values[Len(all_values)]
    /\ thresholds[1] < thresholds[9]
    /\ Len(buckets) = Len(all_values)

(* C27: when all valid values are identical, all nine thresholds equal     *)
(* that value and every drawn cell is in bucket 1; and whenever thresholds  *)
(* k and k + 1 coincide, bucket k + 1 is given to no cell and to no value.  *)
C27_CollapsedBuckets ==
    m.created =>
        /\ Cardinality(DistinctValidValues) = 1 =>
               /\ \A q \in 1..9 : \A a \in DistinctValidValues : deciles[q] = Scale * a
               /\ \A p \in 1..Len(m.squares) : m.squares[p].decile = 1
        /\ \A b \in 1..8 :
               deciles[b] = deciles[b + 1] =>
                   /\ \A p \in 1..Len(m.squares) : m.squares[p].decile # b + 1
                   /\ \A v \in TenthsRange : DecileOf(v, deciles) # b + 1

\* a returned map of values that are not all identical, under thresholds of
\* which some coincide, with squares in two buckets
C27_Witness ==
    /\ pc = "returned"
    /\ Cardinality(DistinctValidValues) > 1
    /\ \E b \in 1..8 : deciles[b] = deciles[b + 1]
    /\ \E p, q \in 1..Len(m.squares) : m.squares[p].decile # m.squares[q].decile

\* a returned map of identical values with several squares
C27_WitnessIdentical ==
    /\ pc = "returned"
    /\ Cardinality(DistinctValidValues) = 1
    /\ Len(m.squares) >= 2

(* C28: the two implementations of create_grid_based_value_map are         *)
(* equivalent: called with the same records and cell size, the method of    *)
(* NeighborhoodValueVisualizer raises exactly when the method of            *)
(* GridBasedVisualizer raised, and otherwise its map holds the same         *)
(* sequence of (grid_id, median_value, property_count, decile).             *)
C28_Equivalent ==
    nv_pc \in {"raised", "returned"} =>
        /\ (nv_pc = "raised") <=> (pc = "raised")
        /\ nv_pc = "returned" =>
               /\ returned # <<>>
               /\ Summary(nv_m) = returned[Len(returned)]
               /\ Summary(nv_m) = Summary(m)

\* both calls have returned maps of several squares in different buckets
C28_Witness ==
    /\ nv_pc = "returned"
    /\ pc = "returned"
    /\ Len(nv_m.squares) >= 2
    /\ \E p, q \in 1..Len(nv_m.squares) : nv_m.squares[p].decile # nv_m.squares[q].decile

\* both calls have raised
C28_WitnessRaised == nv_pc = "raised" /\ pc = "raised" /\ gdf # <<>>

RECURSIVE SumPoints(_)
\* the number of points over a list of heat layers
SumPoints(layers) ==
    IF layers = <<>> THEN 0
    ELSE Cardinality(Head(layers).points) + SumPoints(Tail(layers))

\* the tiers of the claim that hold a value v (in hundredths)
TiersOf(v) ==
    {t \in 1..4 :
        \/ t = 1 /\ v <= quantiles[1]
        \/ t = 2 /\ quantiles[1] < v /\ v <= quantiles[2]
        \/ t = 3 /\ quantiles[2] < v /\ v <= quantiles[3]
        \/ t = 4 /\ v > quantiles[3]}

C29_WitnessBoundary ==
    /\ tier_pc = "returned"
    /\ Len(gdf) > Len(tier_valid_data)
    /\ \E p \in 1..Len(tier_valid_data) :
           PercentScale * tier_valid_data[p].value = quantiles[1]

(* C30: the grid has at least one column and one row, also when all        *)
(* records share the same coordinates; the grid reaches past the padded     *)
(* region by less than one side: 0 <= xmin + x_cells * side - xmax < side,  *)
(* and likewise for the rows; so only cells of the last column and of the   *)
(* last row reach beyond the padded bounds, and every cell has a part of    *)
(* the padded region in it.                                                 *)
C30_GridCoverage ==
    Prepared =>
        /\ x_cells >= 1 /\ y_cells >= 1
        /\ xmin < xmax /\ ymin < ymax
        /\ 0 <= xmin + x_cells * grid_size_meters - xmax
        /\ xmin + x_cells * grid_size_meters - xmax < grid_size_meters
        /\ 0 <= ymin + y_cells * grid_size_meters - ymax
        /\ ymin + y_cells * grid_size_meters - ymax < grid_size_meters
        /\ \A v \in 1..Len(visited) :
               LET c  == visited[v].cell
                   sq == visited[v].square
               IN  /\ xmin <= sq[1] /\ ymin <= sq[2]
                   /\ sq[3] > xmax => c[1] = x_cells - 1
                   /\ sq[4] > ymax => c[2] = y_cells - 1
                   /\ sq[1] < xmax /\ sq[2] < ymax

\* a finished grid for several records that all share the same coordinates,
\* reaching past the padded region
C30_Witness ==
    /\ LoopDone
    /\ Len(valid_data) >= 2
    /\ \A p, q \in 1..Len(valid_data) : valid_data[p].geometry = valid_data[q].geometry
    /\ xmin + x_cells * grid_size_meters > xmax

\* a finished grid whose columns end exactly at the padded bound
C30_WitnessExactFit ==
    /\ LoopDone
    /\ xmin + x_cells * grid_size_meters = xmax

====
